---- MODULE Spec2Model ----
(***************************************************************************)
(* A model of drive_price_scraper.py: the retrying page fetch, the two     *)
(* listing classifiers (solid-state and rotating), the per-unit pipeline   *)
(* run_scrape_one and the scrape loop of main().                           *)
(*                                                                         *)
(* Texts (listing titles, the decoded search keyword) are modelled by what *)
(* the program's regular expressions can see of them: the set of keyword   *)
(* tokens the text contains and the ordered list of its capacity           *)
(* expressions.  Tokens are separated by blanks, so a token is matched as  *)
(* a whole word.  Non-ASCII keywords of the source are left out of the     *)
(* vocabulary, except the for-NAS qualifier, written "NAS_YOU".            *)
(***************************************************************************)
EXTENDS Integers, Sequences, FiniteSets, TLC

(***************************************************************************)
(* Bounds of the model                                                     *)
(***************************************************************************)
MaxKeywords == 2      \* keyword tokens in one title
MaxCaps == 2          \* capacity expressions in one title
MaxFrags == 2         \* item fragments on one results page
MaxRows == 3          \* rows handed to _dedupe_by_asin taken alone
MaxPrices == 4        \* retained items handed to the outlier filter taken alone
MaxItems == 3         \* item fragments of the page whose summary is printed
MaxLogs == 2          \* units run into one log directory

(***************************************************************************)
(* Python values                                                           *)
(***************************************************************************)
\* Optional[int] / Optional[float]: None; every capacity and price is >= 0
None == -1

Abs(x) == IF x < 0 THEN -x ELSE x

Max2(a, b) == IF a >= b THEN a ELSE b

\* round() of the exact quotient num/den to an integer, ties to even
RoundHalfEven(num, den) ==
    LET q == num \div den
        r == num % den
    IN  IF 2 * r < den THEN q
        ELSE IF 2 * r > den THEN q + 1
        ELSE IF q % 2 = 0 THEN q ELSE q + 1

Range(s) == {s[i] : i \in 1..Len(s)}

RECURSIVE SeqsUpTo(_, _)
\* all sequences over S of length at most n
SeqsUpTo(S, n) ==
    IF n = 0 THEN {<<>>}
    ELSE LET shorter == SeqsUpTo(S, n - 1)
         IN  shorter \cup {Append(s, x) : s \in {t \in shorter : Len(t) = n - 1}, x \in S}

RECURSIVE SeqMax(_)
SeqMax(s) == IF Len(s) = 1 THEN s[1] ELSE Max2(s[1], SeqMax(Tail(s)))

SetMin(S) == CHOOSE x \in S : \A y \in S : x <= y

(***************************************************************************)
(* Floating point.  A capacity in TB is a binary double.  A value is kept  *)
(* as [n, e]: n counts units of 1/1024000 TB (so a decimal with three      *)
(* digits and a GB count divided by 1024 are both whole), e is the error   *)
(* of the nearest double against that exact value, in units of             *)
(* 1/(1000 * 2^56).  Subtracting two doubles within a factor of two of     *)
(* each other is exact, which covers every difference that lies near 0.2.  *)
(***************************************************************************)
\* a run of digits that stands for a number beyond the range of a double, as the
\* value of a capacity expression: float() of it is inf
Infinity == 1000000

\* float("<m/1000>") - m/1000, in units of 1/(1000 * 2^56)
FloatErr ==
    [m \in {200, 500, 800, 1000, 1200, 1800, 2000, 2200, 3800, 4000, 4200, Infinity} |->
        CASE m = 200  -> 800
          [] m = 800  -> 3200
          [] m = 1200 -> -3200
          [] m = 1800 -> 3200
          [] m = 2200 -> 12800
          [] m = 3800 -> -12800
          [] m = 4200 -> 12800
          [] OTHER    -> 0]

\* float(m.group(1)) of a TB expression with value milli/1000
TBFloat(milli) == [n |-> milli * 1024, e |-> FloatErr[milli]]

\* float(g) / 1024.0 of a GB count: a dyadic rational, exact
GBasTBFloat(g) == [n |-> g * 1000, e |-> 0]

\* abs(a - b) > 0.2 on doubles
AbsDiffExceedsFifth(a, b) ==
    LET s == IF a.n >= b.n THEN 1 ELSE -1
        d == s * (a.n - b.n)
    IN  \/ d > 204800
        \/ d = 204800 /\ s * (a.e - b.e) > FloatErr[200]

\* round(x, 3), as a count of thousandths
Round3(x) ==
    LET q == x.n \div 1024
        r == x.n % 1024
    IN  IF r < 512 THEN q
        ELSE IF r > 512 THEN q + 1
        ELSE IF x.e > 0 THEN q + 1
        ELSE IF x.e < 0 THEN q
        ELSE IF q % 2 = 0 THEN q ELSE q + 1

(***************************************************************************)
(* Texts                                                                   *)
(***************************************************************************)
Keywords == {"SSD", "HDD", "XBOX", "MacBook", "Synology", "NAS_YOU", "NVMe", "USB", "Seagate"}

\* capacity expressions a title can carry: v is thousandths of a TB, or a GB count
TitleCapTokens ==
    {[unit |-> "TB", v |-> 1000], [unit |-> "TB", v |-> 2200],
     [unit |-> "GB", v |-> 512], [unit |-> "GB", v |-> 1000]}

KeywordSets == {K \in SUBSET Keywords : Cardinality(K) <= MaxKeywords}

Titles == [kw : KeywordSets, caps : SeqsUpTo(TitleCapTokens, MaxCaps)]

EmptyText == [kw |-> {}, caps |-> <<>>]

\* [float(m.group(1)) for m in TB_RE.finditer(text)], as thousandths
TB_RE_finditer(text) ==
    LET tb == SelectSeq(text.caps, LAMBDA c : c.unit = "TB")
    IN  [i \in 1..Len(tb) |-> tb[i].v]

\* [int(m.group(1)) for m in GB_RE.finditer(text)]: (\d{2,5})\s*GB has no
\* boundary before the digits, so it finds nothing in a single digit and the last
\* five digits of a longer number
GB_RE_finditer(text) ==
    LET gb == SelectSeq(text.caps, LAMBDA c : c.unit = "GB" /\ c.v >= 10)
    IN  [i \in 1..Len(gb) |-> gb[i].v % 100000]

(***************************************************************************)
(* Compiled pattern tables: which texts of the vocabulary each pattern     *)
(* finds a match in (re.search, case-insensitive)                          *)
(***************************************************************************)
Has(text, words) == text.kw \cap words # {}

\* _SSD_ACCESSORY_RE: SSD_ACCESSORY_WORDS
SSD_ACCESSORY_RE(t) == Has(t, {"XBOX"})

\* _SSD_PC_RE: SSD_PC_WORDS
SSD_PC_RE(t) == Has(t, {"MacBook"})

\* _SSD_OTHER_RE: SSD_OTHER_MEDIA_WORDS
SSD_OTHER_RE(t) == Has(t, {"HDD", "microSD"})

\* _SSD_RE: \bSSD\b
SSD_RE(t) == Has(t, {"SSD"})

\* ssd_guess_brand: first of SSD_BRAND_DEFS that matches, "" when none
ssd_guess_brand(t) == IF Has(t, {"Seagate"}) THEN "Seagate" ELSE ""

\* ssd_extract_iface: first of _SSD_IFACE_HINTS (Thunderbolt, USB, NVMe, SATA)
ssd_extract_iface(t) ==
    IF Has(t, {"USB"}) THEN "USB"
    ELSE IF Has(t, {"NVMe"}) THEN "NVMe"
    ELSE ""

\* ssd_extract_form: first of _SSD_FORM_HINTS; no token of the vocabulary matches
ssd_extract_form(t) == IF Has(t, {"M.2"}) THEN "M.2" ELSE ""

\* _HDD_ACCESSORY_RE: HDD_ACCESSORY_WORDS
HDD_ACCESSORY_RE(t) == Has(t, {"XBOX"})

\* _HDD_NAS_RE: HDD_NAS_DEVICE_WORDS
HDD_NAS_RE(t) == Has(t, {"Synology"})

\* the for-NAS qualifier pattern of hdd_classify
HDD_FOR_NAS_RE(t) == Has(t, {"NAS_YOU"})

\* _HDD_HINT_RE
HDD_HINT_RE(t) == Has(t, {"HDD"})

\* _HDD_SSD_RE
HDD_SSD_RE(t) == Has(t, {"SSD"})

\* hdd_has_drive_model_hint: no model number in the vocabulary
hdd_has_drive_model_hint(t) == Has(t, {"ST4000DM004"})

\* any(rex.search(title) for _n, rex in _HDD_MAKERS)
HDD_MAKERS_any(t) == Has(t, {"Seagate"})

\* hdd_guess_brand: the first of _HDD_MAKERS that matches, then of _HDD_EXTRA
hdd_guess_brand(t) ==
    IF HDD_MAKERS_any(t) THEN "Seagate"
    ELSE IF Has(t, {"BUFFALO"}) THEN "BUFFALO"
    ELSE ""

\* hdd_extract_iface: first of _HDD_IFACE_HINTS (SAS, SATA, USB, NVMe)
hdd_extract_iface(t) ==
    IF Has(t, {"USB"}) THEN "USB"
    ELSE IF Has(t, {"NVMe"}) THEN "NVMe"
    ELSE ""

(***************************************************************************)
(* Capacity extraction                                                     *)
(***************************************************************************)
\* extract_capacity_gb_tb: (primary_gb, primary_tb, gbs, tbs)
extract_capacity_gb_tb(title) ==
    LET tbs == TB_RE_finditer(title)
        gbs == GB_RE_finditer(title)
        primary_tb == IF tbs # <<>> THEN tbs[1] ELSE None
        primary_gb == IF primary_tb = None /\ gbs # <<>> THEN SeqMax(gbs)
                      ELSE IF primary_tb # None THEN RoundHalfEven(primary_tb * 1024, 1000)
                      ELSE None
    IN  [cap_gb |-> primary_gb, cap_tb |-> primary_tb, gb_list |-> gbs, tb_list |-> tbs]

\* a missing Optional[float]
NoneFloat == [n |-> None, e |-> 0]

\* _hdd_extract_capacity_tb: (smallest stated capacity in TB, the distinct capacities)
hdd_extract_capacity_tb(title) ==
    LET tbs == Range(TB_RE_finditer(title))
        gbs == Range(GB_RE_finditer(title))
    IN  IF tbs # {} THEN [cap0 |-> TBFloat(SetMin(tbs)), cap_list |-> {TBFloat(x) : x \in tbs}]
        ELSE IF gbs # {} THEN [cap0 |-> GBasTBFloat(SetMin(gbs)),
                               cap_list |-> {GBasTBFloat(g) : g \in gbs}]
        ELSE [cap0 |-> NoneFloat, cap_list |-> {}]

\* guess_target_capacity_from_query: (target_gb, target_tb) of the search keyword
guess_target_capacity_from_query(ktext) ==
    LET tbs == TB_RE_finditer(ktext)
        gbs == GB_RE_finditer(ktext)
    IN  IF ktext = EmptyText THEN [target_gb |-> None, target_tb |-> None]
        ELSE IF tbs # <<>> THEN [target_gb |-> None, target_tb |-> tbs[1]]
        ELSE IF gbs # <<>> THEN [target_gb |-> gbs[1], target_tb |-> None]
        ELSE [target_gb |-> None, target_tb |-> None]

(***************************************************************************)
(* Classification                                                          *)
(***************************************************************************)
Res(category, reason) == [category |-> category, reason |-> reason]

\* no rule of this part of the chain has returned
Pass == Res("", "")

\* ssd_classify with the wrong-device rule tried before the accessory rule
ssd_rules_pc_first(t) ==
    IF t = EmptyText THEN Res("other", "empty title")
    ELSE IF SSD_PC_RE(t) THEN Res("pc_device", "pc/device keyword")
    ELSE IF SSD_ACCESSORY_RE(t) THEN Res("accessory", "accessory keyword")
    ELSE IF SSD_OTHER_RE(t) /\ ~SSD_RE(t) THEN Res("other", "non-ssd media")
    ELSE IF SSD_OTHER_RE(t) /\ Has(t, {"microSD"}) THEN Res("other", "usb/sd mixed")
    ELSE IF SSD_OTHER_RE(t) /\ Has(t, {"HDD"}) THEN Res("other", "hdd keyword")
    ELSE IF ~(SSD_RE(t) \/ Has(t, {"NVMe", "M.2", "PCIe", "SATA"}))
    THEN Res("other", "no ssd hints")
    ELSE Pass

\* ssd_classify, the rules before the capacity check
ssd_rules_before_capacity(t) ==
    IF t = EmptyText THEN Res("other", "empty title")
    ELSE IF SSD_ACCESSORY_RE(t) THEN Res("accessory", "accessory keyword")
    ELSE IF SSD_PC_RE(t) THEN Res("pc_device", "pc/device keyword")
    ELSE IF SSD_OTHER_RE(t) /\ ~SSD_RE(t) THEN Res("other", "non-ssd media")
    ELSE IF SSD_OTHER_RE(t) /\ Has(t, {"microSD"}) THEN Res("other", "usb/sd mixed")
    ELSE IF SSD_OTHER_RE(t) /\ Has(t, {"HDD"}) THEN Res("other", "hdd keyword")
    ELSE IF ~(SSD_RE(t) \/ Has(t, {"NVMe", "M.2", "PCIe", "SATA"}))
    THEN Res("other", "no ssd hints")
    ELSE Pass

\* ssd_classify, the body of the capacity check
ssd_capacity_check(t, target_gb, target_tb) ==
    LET c == extract_capacity_gb_tb(t)
        uniq_tb == {Round3(TBFloat(x)) : x \in Range(c.tb_list)}
        uniq_gb == Range(c.gb_list)
    IN  IF Cardinality(uniq_tb) > 1 \/ (Cardinality(uniq_gb) > 1 /\ target_tb = None)
        THEN Res("other", "multi-capacity listing")
        ELSE IF c.cap_tb = None /\ c.cap_gb = None THEN Res("other", "no capacity")
        ELSE IF target_tb # None
        THEN IF c.cap_tb = None
             THEN IF /\ Abs(c.cap_gb - RoundHalfEven(target_tb * 1024, 1000)) > 80
                     \* int(round(target_tb * 1000)) is the count of thousandths
                     /\ Abs(c.cap_gb - target_tb) > 80
                  THEN Res("other", "capacity mismatch")
                  ELSE Pass
             ELSE IF AbsDiffExceedsFifth(TBFloat(c.cap_tb), TBFloat(target_tb))
                  THEN Res("other", "capacity mismatch")
                  ELSE Pass
        ELSE IF c.cap_gb = None THEN Res("other", "capacity mismatch")
        ELSE IF Abs(c.cap_gb - target_gb) > Max2(20, target_gb \div 10)
        THEN Res("other", "capacity mismatch")
        ELSE Pass

\* ssd_classify, the subtype assignment
ssd_subtype(t) ==
    LET iface == ssd_extract_iface(t)
        form == ssd_extract_form(t)
    IN  IF Has(t, {"Portable", "External"}) \/ iface \in {"USB", "Thunderbolt"}
        THEN Res("drive_external", "external hints")
        ELSE IF Has(t, {"NVMe", "PCIe", "M.2"}) \/ form = "M.2"
        THEN Res("drive_internal_nvme", "nvme/m.2 hints")
        ELSE IF Has(t, {"SATA"}) \/ form = "2.5inch"
        THEN Res("drive_internal_sata", "sata/2.5 hints")
        ELSE Res("drive_internal_sata", "generic ssd")

ssd_classify(title, target_gb, target_tb, capacity_match_enabled) ==
    LET before == ssd_rules_before_capacity(title)
        check == IF capacity_match_enabled /\ (target_tb # None \/ target_gb # None)
                 THEN ssd_capacity_check(title, target_gb, target_tb)
                 ELSE Pass
    IN  IF before # Pass THEN before
        ELSE IF check # Pass THEN check
        ELSE ssd_subtype(title)

\* hdd_classify with the no-offer test placed after the accessory rule
hdd_rules_accessory_first(t, no_recommended_offer) ==
    IF HDD_ACCESSORY_RE(t) THEN Res("accessory", "accessory keyword")
    ELSE IF no_recommended_offer THEN Res("other", "no recommended offer")
    ELSE IF HDD_NAS_RE(t) /\ ~HDD_FOR_NAS_RE(t) THEN Res("nas_device", "NAS device keyword")
    ELSE IF HDD_SSD_RE(t) /\ ~Has(t, {"HDD"}) THEN Res("other", "SSD keyword")
    ELSE Pass

\* hdd_classify, the rules before the capacity check
hdd_rules_before_capacity(t, no_recommended_offer) ==
    IF no_recommended_offer THEN Res("other", "no recommended offer")
    ELSE IF HDD_ACCESSORY_RE(t) THEN Res("accessory", "accessory keyword")
    ELSE IF HDD_NAS_RE(t) /\ ~HDD_FOR_NAS_RE(t) THEN Res("nas_device", "NAS device keyword")
    ELSE IF HDD_SSD_RE(t) /\ ~Has(t, {"HDD"}) THEN Res("other", "SSD keyword")
    ELSE Pass

\* hdd_classify, the body of the capacity check
hdd_capacity_check(t, target_tb) ==
    LET c == hdd_extract_capacity_tb(t)
    IN  IF Cardinality({Round3(x) : x \in c.cap_list}) > 1
        THEN Res("other", "multi-capacity listing")
        ELSE IF c.cap0 = NoneFloat THEN Res("other", "no capacity")
        ELSE IF AbsDiffExceedsFifth(c.cap0, TBFloat(target_tb))
        THEN Res("other", "capacity mismatch")
        ELSE Pass

\* hdd_classify, the evidence check and the subtype assignment
hdd_subtype(t) ==
    LET hdd_hint == HDD_HINT_RE(t)
        model_hint == hdd_has_drive_model_hint(t)
        brand == hdd_guess_brand(t)
        is_internal == Has(t, {"SATA", "SAS"})
        is_external == Has(t, {"USB"})
    IN  IF (hdd_hint \/ model_hint \/ brand # "") /\ is_external /\ ~is_internal
        THEN Res("drive_external", "external HDD-like")
        ELSE IF /\ hdd_hint \/ model_hint \/ brand # ""
                /\ is_internal \/ model_hint \/ Has(t, {"HDD"})
        THEN Res("drive_internal", "internal HDD-like")
        ELSE Res("other", "not HDD-like")

hdd_classify(title, target_tb, capacity_match_enabled, no_recommended_offer) ==
    LET before == hdd_rules_before_capacity(title, no_recommended_offer)
        check == IF capacity_match_enabled /\ target_tb # None
                 THEN hdd_capacity_check(title, target_tb)
                 ELSE Pass
    IN  IF before # Pass THEN before
        ELSE IF check # Pass THEN check
        ELSE hdd_subtype(title)

(***************************************************************************)
(* The classifiers as run_scrape_one calls them                            *)
(***************************************************************************)
\* extract_k_from_url(SEARCH_URL_TEMPLATE.format(kind, cap)): the keyword "<kind> <cap>"
extract_k_from_url(kind, cap) == [kw |-> {kind}, caps |-> cap]

\* the capacity argument of a unit: one capacity expression, or a word with none
QueryCaps ==
    {<<>>, <<[unit |-> "GB", v |-> 512]>>, <<[unit |-> "TB", v |-> 1000]>>,
     <<[unit |-> "TB", v |-> 2000]>>}

\* the classifier call of run_scrape_one for a unit of this kind and capacity
classify_call(kind, cap, title, capacity_match_enabled, no_offer) ==
    LET target == guess_target_capacity_from_query(extract_k_from_url(kind, cap))
    IN  IF kind = "SSD"
        THEN ssd_classify(title, target.target_gb, target.target_tb, capacity_match_enabled)
        ELSE hdd_classify(title, target.target_tb, capacity_match_enabled, no_offer)

(***************************************************************************)
(* Pages.  A results page is what is_blocked and split_item_blocks see of  *)
(* it: whether an anti-bot signature occurs in it, and its item fragments  *)
(* in document order, each with the fields the extractors find in it.      *)
(***************************************************************************)
SentinelAsin == "0000000000"

PageAsins == {"B000000001", "B000000002"}

\* a drive of 1 TB that both classifiers accept, and an accessory
DriveTitle == [kw |-> {"NVMe", "USB", "Seagate"}, caps |-> <<[unit |-> "TB", v |-> 1000]>>]

AccessoryTitle == [kw |-> {"XBOX", "SSD"}, caps |-> <<>>]

\* extract_title gives "" (EmptyText) for a fragment without a title
PageTitles == {EmptyText, DriveTitle, AccessoryTitle}

PagePrices == {None, 3000}

Fragments ==
    [asin : PageAsins, title : PageTitles, price : PagePrices, sponsored : {0},
     bad_offer : BOOLEAN]
    \cup {[asin |-> SentinelAsin, title |-> EmptyText, price |-> None, sponsored |-> 0,
           bad_offer |-> FALSE]}

Pages ==
    [blocked : {FALSE}, frags : SeqsUpTo(Fragments, MaxFrags)]
    \cup [blocked : {TRUE}, frags : SeqsUpTo(Fragments, 1)]

\* is_blocked consulted only for a page that has no item fragment
is_blocked_without_items(html) ==
    html.blocked /\ \A i \in 1..Len(html.frags) : html.frags[i].asin = SentinelAsin

\* is_blocked: BLOCK_RE finds a signature
is_blocked(html) == html.blocked

\* split_item_blocks: the fragments whose identifier is not the all-zero sentinel
split_item_blocks(html) == SelectSeq(html.frags, LAMBDA b : b.asin # SentinelAsin)

(***************************************************************************)
(* run_scrape_one                                                          *)
(***************************************************************************)
\* run_scrape_one, lines 920-943: the row of one fragment of a solid-state unit
ssd_row(block, target, raw, brand_only, capacity_match_enabled) ==
    LET title == block.title
        c == extract_capacity_gb_tb(title)
        brand == ssd_guess_brand(title)
        classified == ssd_classify(title, target.target_gb, target.target_tb,
                                   capacity_match_enabled)
        cr == IF raw THEN Res("raw", "raw mode")
              ELSE IF block.bad_offer THEN Res("bad_offer", "featured offer missing")
              ELSE IF brand_only /\ brand = "" THEN Res("other", "brand-only: unknown brand")
              ELSE classified
    IN  [asin |-> block.asin, title |-> title, price_yen |-> block.price,
         sponsored |-> block.sponsored, capacity_gb |-> c.cap_gb, capacity_tb |-> c.cap_tb,
         form |-> ssd_extract_form(title), iface |-> ssd_extract_iface(title),
         brand_guess |-> brand, category |-> cr.category, reason |-> cr.reason]

\* run_scrape_one, lines 944-969: the row of one fragment of a rotating unit
hdd_row(block, target, raw, brand_only, capacity_match_enabled) ==
    LET title == block.title
        classified == hdd_classify(title, target.target_tb, capacity_match_enabled,
                                   block.bad_offer)
        cr == IF raw THEN Res("raw", "raw mode")
              ELSE IF /\ brand_only
                      /\ classified.category \in {"drive_external", "drive_internal"}
                      /\ ~HDD_MAKERS_any(title)
              THEN Res("other", "not drive maker")
              ELSE classified
    IN  [asin |-> block.asin, title |-> title, price_yen |-> block.price,
         sponsored |-> block.sponsored, capacity_tb |-> hdd_extract_capacity_tb(title).cap0,
         form_factor_in |-> None, iface |-> hdd_extract_iface(title),
         brand_guess |-> hdd_guess_brand(title), category |-> cr.category,
         reason |-> cr.reason, no_recommended_offer |-> IF block.bad_offer THEN 1 ELSE 0]

\* run_scrape_one, lines 911-969: the rows of the fragments that have a title
RECURSIVE page_rows(_, _, _, _, _, _)
page_rows(kind, blocks, target, raw, brand_only, capacity_match_enabled) ==
    IF blocks = <<>> THEN <<>>
    ELSE LET block == Head(blocks)
             rest == page_rows(kind, Tail(blocks), target, raw, brand_only,
                               capacity_match_enabled)
         IN  IF block.title = EmptyText THEN rest
             ELSE IF kind = "SSD"
             THEN <<ssd_row(block, target, raw, brand_only, capacity_match_enabled)>> \o rest
             ELSE <<hdd_row(block, target, raw, brand_only, capacity_match_enabled)>> \o rest

\* extract_capacity_gb_tb, line 552: int(round(primary_tb * 1024)) raises
\* OverflowError when the first TB number of the title is inf
extract_capacity_raises(title) ==
    LET tbs == TB_RE_finditer(title)
    IN  tbs # <<>> /\ tbs[1] = Infinity

\* ssd_classify, line 664: extract_capacity_gb_tb is called, outside every try,
\* once no rule before the capacity check has returned
ssd_classify_raises(title) ==
    ssd_rules_before_capacity(title) = Pass /\ extract_capacity_raises(title)

\* run_scrape_one, lines 912-921: the row loop calls extract_capacity_gb_tb on the
\* title of every titled fragment of a solid-state unit, in every mode
page_rows_raise(kind, blocks) ==
    /\ kind = "SSD"
    /\ \E i \in 1..Len(blocks) :
          blocks[i].title # EmptyText /\ extract_capacity_raises(blocks[i].title)

\* _dedupe_by_asin keeping the first record it sees of each identifier
dedupe_step_first_seen(best, r) ==
    IF \A i \in 1..Len(best) : best[i].asin # r.asin THEN Append(best, r) ELSE best

\* _dedupe_by_asin, one step of the loop: best after row r
dedupe_step(best, r) ==
    IF \A i \in 1..Len(best) : best[i].asin # r.asin THEN Append(best, r)
    ELSE LET i == CHOOSE j \in 1..Len(best) : best[j].asin = r.asin
             pa == best[i].price_yen
             pr == r.price_yen
         IN  IF pa = None /\ pr # None THEN [best EXCEPT ![i] = r]
             ELSE IF pa # None /\ pr # None /\ pr < pa THEN [best EXCEPT ![i] = r]
             ELSE best

RECURSIVE dedupe_from(_, _)
dedupe_from(best, rows) ==
    IF rows = <<>> THEN best ELSE dedupe_from(dedupe_step(best, Head(rows)), Tail(rows))

\* _dedupe_by_asin: one row per identifier, in order of first appearance
dedupe_by_asin(rows) == dedupe_from(<<>>, rows)

\* the known prices of a list of rows, in order
valid_prices_of(rows) ==
    LET priced == SelectSeq(rows, LAMBDA r : r.price_yen # None)
    IN  [i \in 1..Len(priced) |-> priced[i].price_yen]

\* sorted(values)
RECURSIVE SortedSeq(_)
SortedSeq(s) ==
    IF s = <<>> THEN <<>>
    ELSE LET i == CHOOSE j \in 1..Len(s) : \A k \in 1..Len(s) : s[j] <= s[k]
         IN  <<s[i]>> \o SortedSeq(SubSeq(s, 1, i - 1) \o SubSeq(s, i + 1, Len(s)))

RECURSIVE SeqSum(_)
SeqSum(s) == IF s = <<>> THEN 0 ELSE Head(s) + SeqSum(Tail(s))

\* calc_median: int(round(statistics.median(values))), 0 for no values
calc_median(values) ==
    LET srt == SortedSeq(values)
        n == Len(values)
    IN  IF n = 0 THEN 0
        ELSE IF n % 2 = 1 THEN srt[(n + 1) \div 2]
        ELSE RoundHalfEven(srt[n \div 2] + srt[n \div 2 + 1], 2)

\* PRICE_LOWER_LIMIT_RATIO and PRICE_UPPER_LIMIT_RATIO, in tenths
low_price_ratio == 3

high_price_ratio == 25

\* median_price * ratio is a product of doubles.  When the exact product is no
\* integer the double lies strictly between the same two integers; when it is an
\* integer the double is that integer or a neighbouring double: the sign of
\* (double - exact), for the medians up to 126 and the ratios 0.3, 2.3 and 2.5
\* (ratios are counted in tenths)
FloatProductErr(median_price, ratio) ==
    IF ratio = 23 /\ median_price \in {50, 90, 100, 110} THEN -1 ELSE 0

\* p < median_price * ratio and p > median_price * ratio, p an int
IntBelowProduct(p, median_price, ratio) ==
    \/ 10 * p < median_price * ratio
    \/ 10 * p = median_price * ratio /\ FloatProductErr(median_price, ratio) > 0

IntAboveProduct(p, median_price, ratio) ==
    \/ 10 * p > median_price * ratio
    \/ 10 * p = median_price * ratio /\ FloatProductErr(median_price, ratio) < 0

\* run_scrape_one, lines 983-1013, with the ratios it was called with
outlier_filter_with(filtered, raw, low_ratio, high_ratio) ==
    LET valid_prices == valid_prices_of(filtered)
        median_price == calc_median(valid_prices)
    IN  IF raw \/ filtered = <<>> \/ valid_prices = <<>> THEN filtered
        ELSE SelectSeq(filtered,
                 LAMBDA r : \/ r.price_yen = None
                            \/ /\ ~IntBelowProduct(r.price_yen, median_price, low_ratio)
                               /\ ~IntAboveProduct(r.price_yen, median_price, high_ratio))

\* the outlier filter with the two default ratios taken for each other
outlier_filter_ratios_swapped(filtered, raw) ==
    outlier_filter_with(filtered, raw, high_price_ratio, low_price_ratio)

\* run_scrape_one, lines 983-1013: the median-ratio outlier filter, default ratios
outlier_filter(filtered, raw) ==
    outlier_filter_with(filtered, raw, low_price_ratio, high_price_ratio)

\* stats_summary with the average rounded half-up
stats_summary_half_up(prices) ==
    IF prices = <<>> THEN <<>>
    ELSE LET srt == SortedSeq(prices)
         IN  <<srt[1], (2 * SeqSum(prices) + Len(prices)) \div (2 * Len(prices)),
               srt[Len(srt)]>>

\* stats_summary: (min, avg, max) of the prices, None for no prices
stats_summary(prices) ==
    IF prices = <<>> THEN <<>>
    ELSE LET srt == SortedSeq(prices)
         IN  <<srt[1], RoundHalfEven(SeqSum(prices), Len(prices)), srt[Len(srt)]>>

\* str(n) of an int n >= 0: its decimal digits
RECURSIVE str_of_int(_)
str_of_int(n) == IF n < 10 THEN <<n>> ELSE Append(str_of_int(n \div 10), n % 10)

\* int(s) of a run of decimal digits, as a pattern group (\d+) hands it over
RECURSIVE int_of_digits(_)
int_of_digits(digits) ==
    IF digits = <<>> THEN 0
    ELSE 10 * int_of_digits(SubSeq(digits, 1, Len(digits) - 1)) + digits[Len(digits)]

\* print(head, label, "min", .., "count", ..): one line of the log, its ints as text
PrintedLine(head, label, ints) ==
    [head |-> head, label |-> label, k |-> EmptyText,
     ints |-> [i \in 1..Len(ints) |-> str_of_int(ints[i])]]

\* print("query(k):", ktext)
QueryLine(ktext) == [head |-> "query(k):", label |-> "", k |-> ktext, ints |-> <<>>]

\* str(v) of a double: the shortest repr, for the capacities of the vocabulary
str_of_float(x) ==
    CASE x.n = 512000  -> "0.5"
      [] x.n = 1000000 -> "0.9765625"
      [] x.n = 1024000 -> "1.0"
      [] x.n = 2048000 -> "2.0"
      [] x.n = 2252800 -> "2.2"

\* _print_group, lines 1047-1048: the label of row rr under this key; a row
\* holds "" (None in the model of a number) for a value that was not found
group_label(kind, key, rr) ==
    CASE key = "brand_guess" -> IF rr.brand_guess = "" THEN "Unknown" ELSE rr.brand_guess
      [] key = "iface" -> IF rr.iface = "" THEN "Unknown" ELSE rr.iface
      [] key = "form" -> IF rr.form = "" THEN "Unknown" ELSE rr.form
      [] key = "capacity_tb" ->
            IF kind = "SSD"
            THEN IF rr.capacity_tb = None THEN "Unknown"
                 ELSE str_of_float(TBFloat(rr.capacity_tb))
            ELSE IF rr.capacity_tb = NoneFloat THEN "Unknown"
                 ELSE str_of_float(rr.capacity_tb)

\* the labels of the vocabulary in the order sorted() puts strings (code points)
LabelOrder ==
    <<"0.5", "0.9765625", "1.0", "2.0", "2.2", "BUFFALO", "M.2", "NVMe", "Seagate", "USB",
      "Unknown">>

\* sorted(groups.keys())
sorted_labels(labels) == SelectSeq(LabelOrder, LAMBDA l : l \in labels)

\* _print_group leaving out the items whose value was not found
print_group_named_only(prefix, key, kind, filtered) ==
    LET priced == SelectSeq(filtered, LAMBDA rr : rr.price_yen # None)
        groups == [l \in {group_label(kind, key, priced[i]) : i \in 1..Len(priced)} |->
                      valid_prices_of(SelectSeq(priced,
                                          LAMBDA rr : group_label(kind, key, rr) = l))]
        labels == SelectSeq(sorted_labels(DOMAIN groups), LAMBDA l : l # "Unknown")
    IN  [i \in 1..Len(labels) |->
            PrintedLine(prefix, labels[i],
                        stats_summary(groups[labels[i]]) \o <<Len(groups[labels[i]])>>)]

\* _print_group: the lines of one prefix; groups holds the prices of the priced
\* rows by label, and a line is printed for every label whose statistics exist
print_group(prefix, key, kind, filtered) ==
    LET priced == SelectSeq(filtered, LAMBDA rr : rr.price_yen # None)
        groups == [l \in {group_label(kind, key, priced[i]) : i \in 1..Len(priced)} |->
                      valid_prices_of(SelectSeq(priced,
                                          LAMBDA rr : group_label(kind, key, rr) = l))]
        labels == SelectSeq(sorted_labels(DOMAIN groups),
                            LAMBDA l : stats_summary(groups[l]) # <<>>)
    IN  [i \in 1..Len(labels) |->
            PrintedLine(prefix, labels[i],
                        stats_summary(groups[labels[i]]) \o <<Len(groups[labels[i]])>>)]

\* the summary with an ALL line of zeros when no item has a price
summary_lines_all_always(kind, filtered) ==
    LET prices_all == valid_prices_of(filtered)
        price_missing == Len(SelectSeq(filtered, LAMBDA r : r.price_yen = None))
        s_all == stats_summary(prices_all)
    IN  <<PrintedLine("ALL", "", (IF s_all = <<>> THEN <<0, 0, 0>> ELSE s_all)
                                  \o <<Len(prices_all)>>)>>
        \o <<PrintedLine("price_missing_count", "", <<price_missing>>)>>
        \o print_group("BRAND", "brand_guess", kind, filtered)
        \o (IF kind = "SSD"
            THEN print_group("IFACE", "iface", kind, filtered)
                 \o print_group("FORM", "form", kind, filtered)
            ELSE <<>>)
        \o print_group("CAP_TB", "capacity_tb", kind, filtered)

\* run_scrape_one, lines 1035-1062: the summary lines, in the order of printing
summary_lines(kind, filtered) ==
    LET prices_all == valid_prices_of(filtered)
        price_missing == Len(SelectSeq(filtered, LAMBDA r : r.price_yen = None))
        s_all == stats_summary(prices_all)
    IN  (IF s_all = <<>> THEN <<>>
         ELSE <<PrintedLine("ALL", "", s_all \o <<Len(prices_all)>>)>>)
        \o <<PrintedLine("price_missing_count", "", <<price_missing>>)>>
        \o print_group("BRAND", "brand_guess", kind, filtered)
        \o (IF kind = "SSD"
            THEN print_group("IFACE", "iface", kind, filtered)
                 \o print_group("FORM", "form", kind, filtered)
            ELSE <<>>)
        \o print_group("CAP_TB", "capacity_tb", kind, filtered)

\* a category test that lets through everything but other
IsNotOther(category) == category # "other"

\* run_scrape_one, line 979: r.get("category", "").startswith("drive_")
IsDriveCategory(category) ==
    category \in {"drive_external", "drive_internal_nvme", "drive_internal_sata",
                  "drive_internal"}

\* run_scrape_one, lines 1015-1062: what the unit saved, wrote and printed, given
\* the outcome of its page loop and the retained rows
unit_report(kind, ktext, html, rows, stop, all_raw_rows, filtered, prices_all) ==
    [html |-> html,
     rows |-> rows,
     pages_ok |-> IF stop.debug_file # "" THEN 0 ELSE 1,
     stop_reason |-> [cause |-> stop.cause, names_file |-> stop.names_file],
     debug_file |-> stop.debug_file,
     all_raw_rows |-> all_raw_rows,
     csv |-> filtered,
     all_line |-> IF stats_summary(prices_all) = <<>> THEN <<>>
                  ELSE stats_summary(prices_all) \o <<Len(prices_all)>>,
     price_missing_count |-> Len(filtered) - Len(prices_all),
     log |-> (IF ktext = EmptyText THEN <<>> ELSE <<QueryLine(ktext)>>)
             \o summary_lines(kind, filtered)]

\* run_scrape_one, lines 983-1013 and 1035: the outlier filter and the known prices
unit_filtered(kind, ktext, html, rows, stop, all_raw_rows, filtered) ==
    unit_report(kind, ktext, html, rows, stop, all_raw_rows, filtered,
                valid_prices_of(filtered))

\* run_scrape_one, lines 975-980: deduplication and the category filter
unit_rows(kind, ktext, raw, html, rows, stop, all_raw_rows) ==
    unit_filtered(kind, ktext, html, rows, stop, all_raw_rows,
                  outlier_filter(SelectSeq(all_raw_rows,
                                     LAMBDA r : raw \/ IsDriveCategory(r.category)), raw))

\* run_scrape_one, lines 886-909: how the page loop ends on this page
page_stop(html) ==
    IF is_blocked(html)
    THEN [cause |-> "blocked detected", names_file |-> TRUE,
          debug_file |-> "BLOCK_debug.html"]
    ELSE IF split_item_blocks(html) = <<>>
    THEN [cause |-> "parsed 0 blocks", names_file |-> FALSE,
          debug_file |-> "EMPTY_debug.html"]
    ELSE [cause |-> "reached max-pages", names_file |-> FALSE, debug_file |-> ""]

\* run_scrape_one, lines 911-971: the rows of the page, none when the loop broke
unit_page(kind, ktext, raw, html, rows, stop) ==
    unit_rows(kind, ktext, raw, html, rows, stop, dedupe_by_asin(rows))

\* run_scrape_one on the page fetch_html returned: what it saved, wrote and printed
run_scrape_one(kind, cap, raw, brand_only, no_capacity_match, html) ==
    unit_page(kind, extract_k_from_url(kind, cap), raw, html,
              IF page_stop(html).debug_file # "" THEN <<>>
              ELSE page_rows(kind, split_item_blocks(html),
                             guess_target_capacity_from_query(extract_k_from_url(kind, cap)),
                             raw, brand_only, ~no_capacity_match),
              page_stop(html))

(***************************************************************************)
(* load_stats_from_dir.  A log is the sequence of lines run_scrape_one     *)
(* printed while main() had standard output on the log file of the unit.   *)
(***************************************************************************)
\* _ALL_RE.search(txt): the four groups of digits of the first line that reads
\* ALL min <d> avg <d> max <d> count <d>, <<>> when no line does
ALL_RE_search(txt) ==
    LET hits == SelectSeq(txt, LAMBDA ln : ln.head = "ALL" /\ Len(ln.ints) = 4)
    IN  IF hits = <<>> THEN <<>> ELSE hits[1].ints

\* _QUERY_RE.search(text): the first line query(k): SSD|HDD <cap>, as <<(k, cap)>>
QUERY_RE_search(text) ==
    LET hits == SelectSeq(text, LAMBDA ln : /\ ln.head = "query(k):"
                                            /\ ln.k.kw \cap {"SSD", "HDD"} # {}
                                            /\ ln.k.caps # <<>>)
    IN  IF hits = <<>> THEN <<>>
        ELSE <<[k |-> CHOOSE w \in hits[1].k.kw : w \in {"SSD", "HDD"}, cap |-> hits[1].k.caps]>>

\* _extract_cap_label: the capacity of the query line when its kind is the kind
\* asked for; else the <n>TB of the file name; else the file name itself
extract_cap_label(kind, log_name, text) ==
    LET found == QUERY_RE_search(text)
    IN  IF found # <<>> /\ found[1].k = kind THEN [cap |-> found[1].cap, from |-> "query"]
        ELSE IF log_name.cap # <<>> /\ log_name.cap[1].unit = "TB"
        THEN [cap |-> log_name.cap, from |-> "name"]
        ELSE [cap |-> log_name.cap, from |-> "file"]

\* _parse_cap_tb: the first <n>TB of the label, else its first <n>GB / 1024, else 0.0
parse_cap_tb(label) ==
    LET tbs == TB_RE_finditer([kw |-> {}, caps |-> label.cap])
        gbs == GB_RE_finditer([kw |-> {}, caps |-> label.cap])
    IN  IF tbs # <<>> THEN TBFloat(tbs[1])
        ELSE IF gbs # <<>> THEN GBasTBFloat(gbs[1])
        ELSE [n |-> 0, e |-> 0]

\* a < b on doubles
FloatLess(a, b) == a.n < b.n \/ (a.n = b.n /\ a.e < b.e)

\* the capacity arguments of the vocabulary as strings, in the order of str <
CapTextOrder ==
    <<(<<>>), (<<[unit |-> "TB", v |-> 1000]>>), (<<[unit |-> "TB", v |-> 2000]>>),
      (<<[unit |-> "GB", v |-> 512]>>)>>

CapTextPlace(cap) == CHOOSE i \in 1..Len(CapTextOrder) : CapTextOrder[i] = cap

\* the key (r.cap_tb, r.cap_label) of a is less than that of b
StatRowBefore(a, b) ==
    \/ FloatLess(a.cap_tb, b.cap_tb)
    \/ /\ a.cap_tb = b.cap_tb
       /\ CapTextPlace(a.cap_label.cap) < CapTextPlace(b.cap_label.cap)

\* rows.sort(key=lambda r: (r.cap_tb, r.cap_label)), a stable sort
RECURSIVE sort_stat_rows(_)
sort_stat_rows(rows) ==
    IF rows = <<>> THEN <<>>
    ELSE LET least == {j \in 1..Len(rows) :
                          \A k \in 1..Len(rows) : ~StatRowBefore(rows[k], rows[j])}
             i == SetMin(least)
         IN  <<rows[i]>> \o sort_stat_rows(SubSeq(rows, 1, i - 1) \o SubSeq(rows, i + 1, Len(rows)))

\* sorted(dirpath.glob("*.log")): the files of the directory by name
RECURSIVE sorted_logs(_)
sorted_logs(files) ==
    IF files = {} THEN <<>>
    ELSE LET f == CHOOSE g \in files :
                      \A h \in files : CapTextPlace(g.name.cap) <= CapTextPlace(h.name.cap)
         IN  <<f>> \o sorted_logs(files \ {f})

\* load_stats_from_dir leaving the rows in the order the files were read
load_stats_unsorted(files, kind) ==
    LET logs == SelectSeq(sorted_logs(files), LAMBDA p : ALL_RE_search(p.txt) # <<>>)
    IN  [i \in 1..Len(logs) |->
            LET g == ALL_RE_search(logs[i].txt)
                cap_label == extract_cap_label(kind, logs[i].name, logs[i].txt)
            IN  [cap_label |-> cap_label, cap_tb |-> parse_cap_tb(cap_label),
                 min_price |-> int_of_digits(g[1]), avg_price |-> int_of_digits(g[2]),
                 max_price |-> int_of_digits(g[3]), count |-> int_of_digits(g[4])]]

\* load_stats_from_dir: a StatRow for every log in which _ALL_RE finds a line
load_stats_from_dir(files, kind) ==
    LET logs == SelectSeq(sorted_logs(files), LAMBDA p : ALL_RE_search(p.txt) # <<>>)
        rows == [i \in 1..Len(logs) |->
                    LET g == ALL_RE_search(logs[i].txt)
                        cap_label == extract_cap_label(kind, logs[i].name, logs[i].txt)
                    IN  [cap_label |-> cap_label, cap_tb |-> parse_cap_tb(cap_label),
                         min_price |-> int_of_digits(g[1]), avg_price |-> int_of_digits(g[2]),
                         max_price |-> int_of_digits(g[3]), count |-> int_of_digits(g[4])]]
    IN  sort_stat_rows(rows)

(***************************************************************************)
(* fetch_html and main(): constants                                        *)
(***************************************************************************)
\* a retry policy that gives up after the third attempt
sleep_retry_three == <<0, 2, 5>>

\* fetch_html, default of the parameter sleep_retry
sleep_retry == <<0, 2, 5, 9>>

\* HTTP status codes a response can carry
HttpStatuses == {200, 404, 408, 429, 500, 503, 504}

\* the attempt ended in an exception of the transport, with no response
TransportException == 0

\* fetch_html, lines 423 and 433: the statuses that are retried
RetryableStatus == {408, 429, 503, 504}

\* last_err set on the first failure only
record_err_first(last, attempt_no, status) ==
    IF last.attempt = 0 THEN [attempt |-> attempt_no, status |-> status] ELSE last

\* fetch_html, lines 424, 430, 437: last_err after a failed attempt
record_err(last, attempt_no, status) == [attempt |-> attempt_no, status |-> status]

\* every failure retried, whatever the status
is_retried_always(status) == status # 200

\* fetch_html: does the loop go on (continue) after this outcome of an attempt?
is_retried(status) == status \in RetryableStatus \/ status = TransportException

\* SSD_CAPACITIES and HDD_CAPACITIES, cut to their first entries of each unit
SSD_CAPACITIES == <<(<<[unit |-> "GB", v |-> 512]>>), (<<[unit |-> "TB", v |-> 1000]>>)>>

HDD_CAPACITIES == <<(<<[unit |-> "TB", v |-> 1000]>>)>>

\* main, lines 1398-1410 with --kind ALL: the units in the order they are run
Units ==
    [i \in 1..Len(SSD_CAPACITIES) |-> [kind |-> "SSD", cap |-> SSD_CAPACITIES[i]]]
    \o [i \in 1..Len(HDD_CAPACITIES) |-> [kind |-> "HDD", cap |-> HDD_CAPACITIES[i]]]

(***************************************************************************)
(* State                                                                   *)
(***************************************************************************)
VARIABLES
    c_title,      \* classifier input: the listing title
    c_cap,        \* classifier input: the capacity argument of the unit
    c_enabled,    \* classifier input: capacity_match_enabled
    c_no_offer,   \* classifier input: the fragment carries the no-eligible-offer marker
    c_out,        \* [kind, res]: which classifier ran and what it returned
    args,         \* main: the parsed options raw, brand_only, no_capacity_match
    pc,           \* main: where the run is
    idx,          \* main: position in Units of the current unit
    started,      \* the units run_scrape_one was called for, in order
    prev_stop,    \* stop reason of the last unit that returned, "" before the first
    inter_cap_sleeps, \* main: number of inter-cap sleeps done
    attempt,      \* fetch_html: i, the number of the next attempt
    attempts,     \* fetch_html: outcome of each attempt made, in order
    slept,        \* fetch_html: the retry sleeps done, in order
    last_err,     \* fetch_html: last_err
    fetch_result, \* fetch_html: what it returned or raised
    unit_out,     \* run_scrape_one: what the current unit saved, wrote and printed
    p_in,         \* a step of run_scrape_one taken alone: its input
    p_out         \* a step of run_scrape_one taken alone: what it returned or printed

cvars == <<c_title, c_cap, c_enabled, c_no_offer, c_out>>

fvars == <<attempt, attempts, slept, last_err, fetch_result>>

mvars == <<args, pc, idx, started, prev_stop, inter_cap_sleeps, unit_out>>

pvars == <<p_in, p_out>>

vars == <<cvars, fvars, mvars, pvars>>

NotRun == [kind |-> "none", res |-> Pass]

NoErr == [attempt |-> 0, status |-> TransportException]

NoResult == [kind |-> "none", attempt |-> 0, status |-> TransportException]

NoUnitOut == [stop_reason |-> [cause |-> "", names_file |-> FALSE]]

ClassifierIdle ==
    /\ c_title = EmptyText
    /\ c_cap = <<>>
    /\ c_enabled = FALSE
    /\ c_no_offer = FALSE
    /\ c_out = NotRun

NoStep == [op |-> "none"]

StepIdle ==
    /\ p_in = NoStep
    /\ p_out = NoStep

FetchIdle ==
    /\ attempt = 1
    /\ attempts = <<>>
    /\ slept = <<>>
    /\ last_err = NoErr
    /\ fetch_result = NoResult

\* main() with --scrape, before the first unit
Init ==
    /\ args \in [raw : BOOLEAN, brand_only : BOOLEAN, no_capacity_match : BOOLEAN]
    /\ pc = "loop"
    /\ idx = 1
    /\ started = <<>>
    /\ prev_stop = ""
    /\ inter_cap_sleeps = 0
    /\ unit_out = NoUnitOut
    /\ FetchIdle
    /\ ClassifierIdle
    /\ StepIdle

\* main, lines 1410-1418: the next unit; run_scrape_one up to its call of fetch_html
StartUnit ==
    /\ pc = "loop"
    /\ idx <= Len(Units)
    /\ started' = Append(started, idx)
    /\ pc' = "fetching"
    /\ attempt' = 1
    /\ attempts' = <<>>
    /\ slept' = <<>>
    /\ last_err' = NoErr
    /\ fetch_result' = NoResult
    /\ unit_out' = NoUnitOut
    /\ UNCHANGED <<args, idx, prev_stop, inter_cap_sleeps, cvars, pvars>>

\* fetch_html, one pass of the loop: the wait, the request and its outcome.  An
\* exception that leaves fetch_html leaves run_scrape_one and main() as well:
\* neither has a handler (main, lines 1417-1429, has try/finally only).
FetchAttempt(status) ==
    LET wait == sleep_retry[attempt]
        err == record_err(last_err, attempt, status)
    IN  /\ slept' = IF wait # 0 THEN Append(slept, wait) ELSE slept
        /\ attempts' = Append(attempts, status)
        /\ IF status = 200
           THEN /\ fetch_result' = [kind |-> "text", attempt |-> attempt, status |-> status]
                /\ pc' = "fetched"
                /\ UNCHANGED <<attempt, last_err>>
           ELSE IF is_retried(status) /\ attempt < Len(sleep_retry)
           THEN /\ last_err' = err
                /\ attempt' = attempt + 1
                /\ UNCHANGED <<pc, fetch_result>>
           ELSE /\ last_err' = err
                /\ fetch_result' = [kind |-> "raise", attempt |-> err.attempt,
                                    status |-> err.status]
                /\ pc' = "aborted"
                /\ UNCHANGED attempt
        /\ UNCHANGED <<args, idx, started, prev_stop, inter_cap_sleeps, unit_out, cvars, pvars>>

\* the response is a success
FetchOk ==
    /\ pc = "fetching"
    /\ FetchAttempt(200)

\* the response carries one of the retried statuses
FetchRetryableStatus ==
    /\ pc = "fetching"
    /\ \E status \in {408, 429, 503, 504} : FetchAttempt(status)

\* the response carries another error status
FetchOtherStatus ==
    /\ pc = "fetching"
    /\ \E status \in {404, 500} : FetchAttempt(status)

\* the request raised (timeout, connection error)
FetchException ==
    /\ pc = "fetching"
    /\ FetchAttempt(TransportException)

\* fetch_html, line 428: return resp.text; its locals are gone
FetchReturn ==
    /\ pc = "fetched"
    /\ pc' = "parsing"
    /\ attempt' = 1
    /\ attempts' = <<>>
    /\ slept' = <<>>
    /\ last_err' = NoErr
    /\ fetch_result' = NoResult
    /\ UNCHANGED <<args, idx, started, prev_stop, inter_cap_sleeps, unit_out, cvars, pvars>>

\* run_scrape_one, lines 886-1064, on the text fetch_html returned
ProcessPage ==
    /\ pc = "parsing"
    /\ \E html \in Pages :
          unit_out' = run_scrape_one(Units[idx].kind, Units[idx].cap, args.raw,
                                     args.brand_only, args.no_capacity_match, html)
    /\ prev_stop' = unit_out'.stop_reason.cause
    /\ pc' = "unit_done"
    /\ UNCHANGED <<args, idx, started, inter_cap_sleeps, fvars, cvars, pvars>>

\* main sleeping between units only: no sleep after the last unit
InterCapSleep_between_units ==
    /\ pc = "unit_done"
    /\ inter_cap_sleeps' = IF idx < Len(Units) THEN inter_cap_sleeps + 1 ELSE inter_cap_sleeps
    /\ idx' = idx + 1
    /\ pc' = "loop"
    /\ unit_out' = NoUnitOut
    /\ UNCHANGED <<args, started, prev_stop, fvars, cvars, pvars>>

\* main, lines 1428-1436: stdout restored, the table moved, the inter-cap sleep
InterCapSleep ==
    /\ pc = "unit_done"
    /\ inter_cap_sleeps' = inter_cap_sleeps + 1
    /\ idx' = idx + 1
    /\ pc' = "loop"
    /\ unit_out' = NoUnitOut
    /\ UNCHANGED <<args, started, prev_stop, fvars, cvars, pvars>>

\* main, lines 1438-1473: all units done; the summaries and the gauge
Finish ==
    /\ pc = "loop"
    /\ idx > Len(Units)
    /\ pc' = "done"
    /\ UNCHANGED <<args, idx, started, prev_stop, inter_cap_sleeps, unit_out, fvars, cvars, pvars>>

Next ==
    \/ StartUnit
    \/ FetchOk
    \/ FetchRetryableStatus
    \/ FetchOtherStatus
    \/ FetchException
    \/ FetchReturn
    \/ ProcessPage
    \/ InterCapSleep
    \/ Finish

Spec == Init /\ [][Next]_vars

\* the classifiers alone: no run of main()
MainOff ==
    /\ args = [raw |-> FALSE, brand_only |-> FALSE, no_capacity_match |-> FALSE]
    /\ pc = "off"
    /\ idx = 1
    /\ started = <<>>
    /\ prev_stop = ""
    /\ inter_cap_sleeps = 0
    /\ unit_out = NoUnitOut

InitClassify ==
    /\ c_title \in Titles
    /\ c_cap \in QueryCaps
    /\ c_enabled \in BOOLEAN
    /\ c_no_offer \in BOOLEAN
    /\ c_out = NotRun
    /\ FetchIdle
    /\ MainOff
    /\ StepIdle

\* run_scrape_one, line 931: the solid-state classifier on one title
ClassifySSD ==
    /\ pc = "off"
    /\ c_out = NotRun
    /\ c_out' = [kind |-> "SSD",
                 res |-> classify_call("SSD", c_cap, c_title, c_enabled, c_no_offer)]
    /\ UNCHANGED <<c_title, c_cap, c_enabled, c_no_offer, fvars, mvars, pvars>>

\* run_scrape_one, line 950: the rotating classifier on one title
ClassifyHDD ==
    /\ pc = "off"
    /\ c_out = NotRun
    /\ c_out' = [kind |-> "HDD",
                 res |-> classify_call("HDD", c_cap, c_title, c_enabled, c_no_offer)]
    /\ UNCHANGED <<c_title, c_cap, c_enabled, c_no_offer, fvars, mvars, pvars>>

NextClassify == ClassifySSD \/ ClassifyHDD

SpecClassify == InitClassify /\ [][NextClassify]_vars

(***************************************************************************)
(* _dedupe_by_asin taken alone (SpecDedupe)                                *)
(***************************************************************************)
DedupePrices == {None, 1000, 2000}

\* fragments of two identifiers, with a title each and a known or unknown price
DedupeFragments ==
    [asin : PageAsins, title : {DriveTitle, AccessoryTitle}, price : DedupePrices,
     sponsored : {0}, bad_offer : {FALSE}]

\* run_scrape_one, lines 911-969: the rows of a solid-state unit for 1TB
DedupeInputs ==
    {page_rows("SSD", blocks, guess_target_capacity_from_query(
                   extract_k_from_url("SSD", <<[unit |-> "TB", v |-> 1000]>>)),
               FALSE, FALSE, TRUE) :
        blocks \in SeqsUpTo(DedupeFragments, MaxRows)}

InitDedupe ==
    /\ p_in \in [op : {"dedupe"}, rows : DedupeInputs]
    /\ p_out = NoStep
    /\ FetchIdle
    /\ MainOff
    /\ ClassifierIdle

\* run_scrape_one, line 975
Dedupe ==
    /\ p_in.op = "dedupe"
    /\ p_out = NoStep
    /\ p_out' = [op |-> "dedupe", rows |-> dedupe_by_asin(p_in.rows)]
    /\ UNCHANGED <<p_in, cvars, fvars, mvars>>

NextDedupe == Dedupe

SpecDedupe == InitDedupe /\ [][NextDedupe]_vars

Deduped == p_out.op = "dedupe"

RowsOf(rows, asin) == {i \in 1..Len(rows) : rows[i].asin = asin}

KnownPricesOf(rows, asin) ==
    {rows[i].price_yen : i \in {j \in RowsOf(rows, asin) : rows[j].price_yen # None}}

\* C11: _dedupe_by_asin returns exactly one record per identifier of its input,
\* which is one of the input records of that identifier, unmodified; its price is
\* the least known price of that identifier, and it is unknown only if every
\* input record of the identifier has an unknown price.
C11_OneBestRecordPerAsin ==
    Deduped =>
        LET rows == p_in.rows
            out == p_out.rows
        IN  /\ {out[i].asin : i \in 1..Len(out)} = {rows[i].asin : i \in 1..Len(rows)}
            /\ \A i \in 1..Len(out) :
                  /\ RowsOf(out, out[i].asin) = {i}
                  /\ \E j \in RowsOf(rows, out[i].asin) : rows[j] = out[i]
                  /\ LET known == KnownPricesOf(rows, out[i].asin)
                     IN  IF known = {} THEN out[i].price_yen = None
                         ELSE out[i].price_yen = SetMin(known)

\* one identifier seen with prices 2000, unknown, 1000: the 1000 record is kept
C11_Witness ==
    /\ Deduped
    /\ Len(p_in.rows) = 3
    /\ [i \in 1..3 |-> p_in.rows[i].price_yen] = <<2000, None, 1000>>
    /\ Cardinality({p_in.rows[i].asin : i \in 1..3}) = 1
    /\ p_out.rows = <<p_in.rows[3]>>

\* the record _dedupe_by_asin keeps for an identifier
Representative(rows, asin) ==
    LET out == dedupe_by_asin(rows)
        r == out[CHOOSE i \in 1..Len(out) : out[i].asin = asin]
    IN  [title |-> r.title, sponsored |-> r.sponsored, category |-> r.category,
         price_yen |-> r.price_yen]

\* C12: for every list of records and every permutation of it, _dedupe_by_asin
\* keeps the same representative (title, sponsored flag, category, price) for each
\* identifier, also when records of one identifier have equal or unknown prices.
C12_OrderIndependent ==
    Deduped =>
        LET rows == p_in.rows
        IN  \A perm \in Permutations(1..Len(rows)) :
                LET permuted == [i \in 1..Len(rows) |-> rows[perm[i]]]
                IN  \A a \in {rows[i].asin : i \in 1..Len(rows)} :
                        Representative(permuted, a) = Representative(rows, a)

(***************************************************************************)
(* The outlier filter taken alone (SpecFilter)                             *)
(***************************************************************************)
\* prices around a median of 50: 15 = 0.3 x 50, 115 = 2.3 x 50, 125 = 2.5 x 50
FilterPrices == {None, 15, 50, 51, 115, 125, 126}

\* the worked example of the specification
ExamplePrices == <<1000, 1050, 1100, 1080, 9000>>

ItemAsins ==
    <<"B000000001", "B000000002", "B000000003", "B000000004", "B000000005", "B000000006">>

\* the retained items: one drive row per identifier, with these prices
RetainedRows(prices) ==
    [i \in 1..Len(prices) |->
        [asin |-> ItemAsins[i], price_yen |-> prices[i], category |-> "drive_internal"]]

\* --low-price-ratio and --high-price-ratio, in tenths: the defaults, and 0.3 / 2.3
RatioPairs == {<<low_price_ratio, high_price_ratio>>, <<low_price_ratio, 23>>}

InitFilter ==
    /\ \/ p_in \in [op : {"filter"}, raw : BOOLEAN, ratios : RatioPairs,
                     rows : {RetainedRows(ps) : ps \in SeqsUpTo(FilterPrices, MaxPrices)}]
       \/ p_in = [op |-> "filter", raw |-> FALSE,
                  ratios |-> <<low_price_ratio, high_price_ratio>>,
                  rows |-> RetainedRows(ExamplePrices)]
    /\ p_out = NoStep
    /\ FetchIdle
    /\ MainOff
    /\ ClassifierIdle

\* run_scrape_one, lines 983-1013
FilterOnce ==
    /\ p_in.op = "filter"
    /\ p_out = NoStep
    /\ LET out == outlier_filter_with(p_in.rows, p_in.raw, p_in.ratios[1], p_in.ratios[2])
       IN  p_out' = [op |-> "filter", passes |-> 1, first |-> out, rows |-> out]
    /\ UNCHANGED <<p_in, cvars, fvars, mvars>>

\* the filter run again on its own output, with the same ratios
FilterAgain ==
    /\ p_out.op = "filter"
    /\ p_out.passes = 1
    /\ p_out' = [p_out EXCEPT !.passes = 2,
                              !.rows = outlier_filter_with(p_out.rows, p_in.raw,
                                                           p_in.ratios[1], p_in.ratios[2])]
    /\ UNCHANGED <<p_in, cvars, fvars, mvars>>

NextFilter == FilterOnce \/ FilterAgain

SpecFilter == InitFilter /\ [][NextFilter]_vars

\* twice the median of a non-empty list of prices (exact)
TwiceMedian(prices) ==
    LET srt == SortedSeq(prices)
        n == Len(prices)
    IN  IF n % 2 = 1 THEN 2 * srt[(n + 1) \div 2]
        ELSE srt[n \div 2] + srt[n \div 2 + 1]

\* C14: in a non-raw run the outlier filter keeps exactly the items whose price is
\* unknown or lies in [median x low_ratio, median x high_ratio], median being the
\* median of the known prices of the retained set (a price on a threshold is
\* kept); in a raw run it removes nothing; of the example prices only 9000 goes.
C14_ClosedInterval ==
    p_out.op = "filter" /\ p_out.passes = 1 =>
        LET rows == p_in.rows
            known == valid_prices_of(rows)
        IN  IF p_in.raw \/ known = <<>> THEN p_out.rows = rows
            ELSE p_out.rows =
                   SelectSeq(rows,
                       LAMBDA r : \/ r.price_yen = None
                                  \/ /\ 20 * r.price_yen >= TwiceMedian(known) * p_in.ratios[1]
                                     /\ 20 * r.price_yen <= TwiceMedian(known) * p_in.ratios[2])

\* C15: the filter applied to its own output, with the same ratios and the median
\* recomputed on that output, removes no item.
C15_Idempotent == p_out.op = "filter" /\ p_out.passes = 2 => p_out.rows = p_out.first

(***************************************************************************)
(* The summary run_scrape_one prints (SpecSummary)                         *)
(***************************************************************************)
\* 1000 and 3001 average to a tie; 3001 is an outlier of 1000, 1000, 3001
SummaryPrices == {None, 1000, 3001}

\* a drive with no brand, external interface or capacity in its title
NvmeTitle == [kw |-> {"NVMe"}, caps |-> <<>>]

\* a rotating drive with no brand in its title, its capacity stated in GB
PlainHddTitle == [kw |-> {"HDD"}, caps |-> <<[unit |-> "GB", v |-> 512]>>]

SummaryTitles(kind) ==
    IF kind = "SSD" THEN {DriveTitle, NvmeTitle, AccessoryTitle}
    ELSE {DriveTitle, PlainHddTitle, AccessoryTitle}

\* results pages whose fragments have an identifier each, a title and a price
SummaryPages(kind) ==
    {[blocked |-> FALSE,
      frags |-> [i \in 1..Len(s) |->
                    [asin |-> ItemAsins[i], title |-> s[i][1], price |-> s[i][2],
                     sponsored |-> 0, bad_offer |-> FALSE]]] :
        s \in SeqsUpTo(SummaryTitles(kind) \X SummaryPrices, MaxItems)}

InitSummary ==
    /\ \E kind \in {"SSD", "HDD"} :
          p_in \in [op : {"summary"}, kind : {kind}, raw : BOOLEAN, html : SummaryPages(kind)]
    /\ p_out = NoStep
    /\ FetchIdle
    /\ MainOff
    /\ ClassifierIdle

\* run_scrape_one of a 1TB unit with --no-capacity-match, on the page fetched
Summarise ==
    /\ p_in.op = "summary"
    /\ p_out = NoStep
    /\ p_out' = [op |-> "summary",
                 run |-> run_scrape_one(p_in.kind, <<[unit |-> "TB", v |-> 1000]>>,
                                        p_in.raw, FALSE, TRUE, p_in.html)]
    /\ UNCHANGED <<p_in, cvars, fvars, mvars>>

NextSummary == Summarise

SpecSummary == InitSummary /\ [][NextSummary]_vars

Summarised == p_out.op = "summary"

SetMax(S) == CHOOSE x \in S : \A y \in S : x >= y

LinesWith(log, head) == SelectSeq(log, LAMBDA ln : ln.head = head)

\* the ints a reader finds on a printed line
ReadInts(ln) == [i \in 1..Len(ln.ints) |-> int_of_digits(ln.ints[i])]

SummaryOrder == <<"query(k):", "ALL", "price_missing_count", "BRAND", "IFACE", "FORM", "CAP_TB">>

PlaceOf(head) == CHOOSE i \in 1..Len(SummaryOrder) : SummaryOrder[i] = head

\* C16: the ALL line is printed iff a retained item has a known price; its count
\* is the number of retained items with a known price and its min, avg and max are
\* those of exactly these prices; the lines come in the order ALL,
\* price_missing_count, BRAND, (solid-state only) IFACE, FORM, then CAP_TB; and
\* price_missing_count plus the ALL count is the number of rows of the table.
C16_AllLineAndOrder ==
    Summarised =>
        LET log == p_out.run.log
            csv == p_out.run.csv
            known == {i \in 1..Len(csv) : csv[i].price_yen # None}
            prices == {csv[i].price_yen : i \in known}
            total == SeqSum([i \in 1..Len(csv) |->
                                IF i \in known THEN csv[i].price_yen ELSE 0])
            all == LinesWith(log, "ALL")
            missing == LinesWith(log, "price_missing_count")
        IN  /\ all # <<>> <=> known # {}
            /\ Len(all) <= 1
            /\ all # <<>> =>
                  ReadInts(all[1]) = <<SetMin(prices),
                                       RoundHalfEven(total, Cardinality(known)),
                                       SetMax(prices), Cardinality(known)>>
            /\ \A i \in 1..Len(log) - 1 : PlaceOf(log[i].head) <= PlaceOf(log[i + 1].head)
            /\ \A i \in 1..Len(log) : log[i].head \in {"IFACE", "FORM"} => p_in.kind = "SSD"
            /\ Len(missing) = 1
            /\ ReadInts(missing[1])[1] + (IF all = <<>> THEN 0 ELSE ReadInts(all[1])[4])
                   = Len(csv)

\* a solid-state unit: three drives, one without a price; ALL over the other two
C16_Witness ==
    /\ Summarised
    /\ p_in.kind = "SSD"
    /\ ~p_in.raw
    /\ [i \in 1..Len(p_out.run.csv) |-> p_out.run.csv[i].price_yen] = <<1000, None, 3001>>
    /\ [i \in 1..4 |-> p_out.run.log[i].head] = <<"query(k):", "ALL", "price_missing_count", "BRAND">>
    /\ ReadInts(p_out.run.log[2]) = <<1000, 2000, 3001, 2>>
    /\ ReadInts(p_out.run.log[3]) = <<1>>
    /\ \E i \in 1..Len(p_out.run.log) : p_out.run.log[i].head = "FORM"

\* the prefixes _print_group is called with for a unit of this kind, and their keys
GroupKeys(kind) ==
    IF kind = "SSD"
    THEN {<<"BRAND", "brand_guess">>, <<"IFACE", "iface">>, <<"FORM", "form">>,
          <<"CAP_TB", "capacity_tb">>}
    ELSE {<<"BRAND", "brand_guess">>, <<"CAP_TB", "capacity_tb">>}

LabelPlace(label) == CHOOSE i \in 1..Len(LabelOrder) : LabelOrder[i] = label

\* C17: under each prefix a line is printed for a label iff a retained item with
\* that label has a known price; every such line has a count of at least 1 and
\* the min, avg and max of exactly the known prices of the group; the lines of a
\* prefix are in ascending order of label; their counts add up to the ALL count.
C17_GroupLines ==
    Summarised =>
        LET log == p_out.run.log
            csv == p_out.run.csv
            kind == p_in.kind
        IN  \A g \in GroupKeys(kind) :
                LET lines == LinesWith(log, g[1])
                    PricedWith(l) ==
                        {i \in 1..Len(csv) : /\ csv[i].price_yen # None
                                             /\ group_label(kind, g[2], csv[i]) = l}
                    Total(S) == SeqSum([i \in 1..Len(csv) |->
                                           IF i \in S THEN csv[i].price_yen ELSE 0])
                IN  /\ \A l \in Range(LabelOrder) :
                          (\E i \in 1..Len(lines) : lines[i].label = l) <=> PricedWith(l) # {}
                    /\ \A i \in 1..Len(lines) :
                          LET group == PricedWith(lines[i].label)
                              prices == {csv[j].price_yen : j \in group}
                          IN  /\ ReadInts(lines[i])[4] >= 1
                              /\ ReadInts(lines[i]) =
                                    <<SetMin(prices),
                                      RoundHalfEven(Total(group), Cardinality(group)),
                                      SetMax(prices), Cardinality(group)>>
                    /\ \A i \in 1..Len(lines) - 1 :
                          LabelPlace(lines[i].label) < LabelPlace(lines[i + 1].label)
                    /\ SeqSum([i \in 1..Len(lines) |-> ReadInts(lines[i])[4]])
                           = Cardinality({i \in 1..Len(csv) : csv[i].price_yen # None})

\* a raw run: two priced drives with interfaces NVMe and USB, and an unpriced
\* accessory with none, whose group gets no line
C17_Witness ==
    /\ Summarised
    /\ p_in.kind = "SSD"
    /\ p_in.raw
    /\ LET lines == LinesWith(p_out.run.log, "IFACE")
       IN  /\ [i \in 1..Len(lines) |-> lines[i].label] = <<"NVMe", "USB">>
           /\ ReadInts(lines[1]) = <<3001, 3001, 3001, 1>>
    /\ \E i \in 1..Len(p_out.run.csv) :
          p_out.run.csv[i].iface = "" /\ p_out.run.csv[i].price_yen = None

(***************************************************************************)
(* The logs of a run and load_stats_from_dir (SpecGauge)                   *)
(***************************************************************************)
\* --caps: the capacity arguments of the units
GaugeCaps ==
    {<<[unit |-> "GB", v |-> 512]>>, <<[unit |-> "TB", v |-> 1000]>>,
     <<[unit |-> "TB", v |-> 2000]>>}

\* the prices of the items of a unit's page: none, unpriced, priced, a tie of avg
GaugePriceLists == {<<>>, <<None>>, <<1000>>, <<1000, 3001>>}

\* the page of a unit: drives of the capacity that was searched for
GaugePage(cap, prices) ==
    [blocked |-> FALSE,
     frags |-> [i \in 1..Len(prices) |->
                   [asin |-> ItemAsins[i], title |-> [kw |-> DriveTitle.kw, caps |-> cap],
                    price |-> prices[i], sponsored |-> 0, bad_offer |-> FALSE]]]

InitGauge ==
    /\ p_in \in [op : {"gauge"}, kind : {"SSD", "HDD"},
                 units : SeqsUpTo([cap : GaugeCaps, prices : GaugePriceLists], MaxLogs)]
    /\ p_out = [op |-> "gauge", done |-> 0, files |-> {}, loaded |-> FALSE, rows |-> <<>>]
    /\ FetchIdle
    /\ MainOff
    /\ ClassifierIdle

\* main, lines 1411-1415: the log of a unit is opened for writing under the name
\* of its kind and capacity, so a file of that name is replaced
write_log(files, name, run) ==
    {f \in files : f.name # name} \cup {[name |-> name, txt |-> run.log, csv |-> run.csv]}

\* main, lines 1410-1429: the next unit, its output written to <kind>_<cap>.log
ScrapeUnit ==
    /\ p_in.op = "gauge"
    /\ p_out.done < Len(p_in.units)
    /\ p_out' = [p_out EXCEPT
                    !.done = @ + 1,
                    !.files =
                        write_log(@, [kind |-> p_in.kind,
                                      cap |-> p_in.units[p_out.done + 1].cap],
                                  run_scrape_one(p_in.kind, p_in.units[p_out.done + 1].cap,
                                                 FALSE, FALSE, FALSE,
                                                 GaugePage(p_in.units[p_out.done + 1].cap,
                                                           p_in.units[p_out.done + 1].prices)))]
    /\ UNCHANGED <<p_in, cvars, fvars, mvars>>

\* main, line 1453, and run_gauge, lines 1320 and 1333: the logs are read back
LoadStats ==
    /\ p_in.op = "gauge"
    /\ p_out.done = Len(p_in.units)
    /\ ~p_out.loaded
    /\ p_out' = [p_out EXCEPT !.loaded = TRUE,
                              !.rows = load_stats_from_dir(p_out.files, p_in.kind)]
    /\ UNCHANGED <<p_in, cvars, fvars, mvars>>

NextGauge == ScrapeUnit \/ LoadStats

SpecGauge == InitGauge /\ [][NextGauge]_vars

Loaded == p_out.op = "gauge" /\ p_out.loaded

\* C18: load_stats_from_dir gives exactly one StatRow for every unit log that has
\* a priced item, with the min, avg, max and count of its ALL line and, as label,
\* the capacity of its query(k) line; a log without an ALL line gives no row; the
\* rows are in ascending order of capacity in TB.
C18_LogRoundTrip ==
    Loaded =>
        LET rows == p_out.rows
        IN  /\ \A f \in p_out.files :
                  LET mine == {i \in 1..Len(rows) : rows[i].cap_label.cap = f.name.cap}
                      all == LinesWith(f.txt, "ALL")
                      query == LinesWith(f.txt, "query(k):")
                  IN  IF \E j \in 1..Len(f.csv) : f.csv[j].price_yen # None
                      THEN /\ Cardinality(mine) = 1
                           /\ Len(all) = 1
                           /\ \A i \in mine :
                                 /\ <<rows[i].min_price, rows[i].avg_price,
                                      rows[i].max_price, rows[i].count>> = ReadInts(all[1])
                                 /\ rows[i].count =
                                       Cardinality({j \in 1..Len(f.csv) :
                                                       f.csv[j].price_yen # None})
                                 /\ rows[i].cap_label.from = "query"
                                 /\ rows[i].cap_label.cap = query[1].k.caps
                      ELSE all = <<>> /\ mine = {}
            /\ Len(rows) = Cardinality({f \in p_out.files : LinesWith(f.txt, "ALL") # <<>>})
            /\ \A i \in 1..Len(rows) - 1 : ~FloatLess(rows[i + 1].cap_tb, rows[i].cap_tb)

\* units run in the order 2TB, 512GB: both logs have an ALL line, and the rows
\* come back as 512GB, 2TB
C18_Witness ==
    /\ Loaded
    /\ Len(p_in.units) = 2
    /\ p_in.units[1].cap = <<[unit |-> "TB", v |-> 2000]>>
    /\ p_in.units[2].cap = <<[unit |-> "GB", v |-> 512]>>
    /\ Len(p_out.rows) = 2
    /\ p_out.rows[1].cap_label.cap = <<[unit |-> "GB", v |-> 512]>>
    /\ p_out.rows[1].cap_tb = GBasTBFloat(512)
    /\ p_out.rows[2].cap_tb = TBFloat(2000)
    /\ <<p_out.rows[2].min_price, p_out.rows[2].avg_price, p_out.rows[2].max_price,
         p_out.rows[2].count>> = <<1000, 2000, 3001, 2>>

(***************************************************************************)
(* The rows of a page and the classifiers on every title (SpecRows)        *)
(***************************************************************************)
\* a capacity and nothing else
PlainCapTitle == [kw |-> {}, caps |-> <<[unit |-> "TB", v |-> 1000]>>]

\* a drive whose title states a capacity of several hundred digits
OverflowTitle == [kw |-> {"SSD"}, caps |-> <<[unit |-> "TB", v |-> Infinity]>>]

\* a rotating drive of a brand that is in HDD_EXTRA_BRAND_DEFS, not in HDD_MAKER_DEFS
BuffaloTitle == [kw |-> {"HDD", "BUFFALO"}, caps |-> <<[unit |-> "TB", v |-> 1000]>>]

RowTitles ==
    {EmptyText, DriveTitle, AccessoryTitle, NvmeTitle, PlainCapTitle, OverflowTitle,
     BuffaloTitle}

RowFragments ==
    [asin : {"B000000001"}, title : RowTitles, price : {3000}, sponsored : {0},
     bad_offer : BOOLEAN]

\* what a call gives back: a value, or an exception that leaves the function
Returned(value) == [raised |-> FALSE, value |-> value]

Raised == [raised |-> TRUE, value |-> <<>>]

InitRows ==
    /\ p_in \in [op : {"rows"}, kind : {"SSD", "HDD"}, raw : BOOLEAN, brand_only : BOOLEAN,
                 blocks : SeqsUpTo(RowFragments, MaxFrags)]
    /\ p_out = [op |-> "rows", rows |-> <<>>, classified |-> <<>>]
    /\ FetchIdle
    /\ MainOff
    /\ ClassifierIdle

\* run_scrape_one, lines 911-969, for a 1TB unit: the rows of the page
BuildRows ==
    /\ p_in.op = "rows"
    /\ p_out.rows = <<>>
    /\ LET target == guess_target_capacity_from_query(
                         extract_k_from_url(p_in.kind, <<[unit |-> "TB", v |-> 1000]>>))
       IN  p_out' = [p_out EXCEPT !.rows =
                        <<IF page_rows_raise(p_in.kind, p_in.blocks) THEN Raised
                          ELSE Returned(page_rows(p_in.kind, p_in.blocks, target, p_in.raw,
                                                  p_in.brand_only, TRUE))>>]
    /\ UNCHANGED <<p_in, cvars, fvars, mvars>>

\* ssd_classify or hdd_classify called on the title of every fragment
ClassifyTitles ==
    /\ p_in.op = "rows"
    /\ p_out.classified = <<>>
    /\ p_in.blocks # <<>>
    /\ p_out' = [p_out EXCEPT !.classified =
                    [i \in 1..Len(p_in.blocks) |->
                        LET b == p_in.blocks[i]
                        IN  IF p_in.kind = "SSD" /\ ssd_classify_raises(b.title) THEN Raised
                            ELSE Returned(classify_call(p_in.kind,
                                                        <<[unit |-> "TB", v |-> 1000]>>,
                                                        b.title, TRUE, b.bad_offer))]]
    /\ UNCHANGED <<p_in, cvars, fvars, mvars>>

NextRows == BuildRows \/ ClassifyTitles

SpecRows == InitRows /\ [][NextRows]_vars

\* the categories a row can carry
Taxonomy ==
    {"drive_external", "drive_internal_nvme", "drive_internal_sata", "drive_internal",
     "accessory", "pc_device", "nas_device", "other", "bad_offer", "raw"}

\* C19: every row of a unit, in every mode, has a non-empty title, a category of
\* the taxonomy and a non-empty reason; a fragment without a title gives no row
\* and does not abort the unit; both classifiers return a (category, reason) pair
\* for every title, other for a title with no hint, and never raise.
C19_RowsAndClassifiersTotal ==
    p_out.op = "rows" =>
        /\ \A k \in 1..Len(p_out.rows) :
              /\ ~p_out.rows[k].raised
              /\ LET rows == p_out.rows[k].value
                     titled == SelectSeq(p_in.blocks, LAMBDA b : b.title # EmptyText)
                 IN  /\ Len(rows) = Len(titled)
                     /\ \A i \in 1..Len(rows) :
                           /\ rows[i].title = titled[i].title
                           /\ rows[i].category \in Taxonomy
                           /\ rows[i].reason # ""
        /\ \A i \in 1..Len(p_out.classified) :
              /\ ~p_out.classified[i].raised
              /\ p_out.classified[i].value.category \in Taxonomy
              /\ p_out.classified[i].value.reason # ""
              /\ p_in.blocks[i].title \in {EmptyText, PlainCapTitle} =>
                    p_out.classified[i].value.category = "other"

(***************************************************************************)
(* guess_target_capacity_from_query on a search keyword (SpecQuery)        *)
(***************************************************************************)
\* capacity expressions of a keyword: numbers of 1, 2, 3 and 6 digits before GB
QueryCapTokens ==
    {[unit |-> "TB", v |-> 1000], [unit |-> "TB", v |-> 2000], [unit |-> "GB", v |-> 8],
     [unit |-> "GB", v |-> 64], [unit |-> "GB", v |-> 512], [unit |-> "GB", v |-> 123456]}

\* the decoded keyword: a kind or no word, and capacity expressions in order
QueryTexts == [kw : {{}, {"SSD"}, {"HDD"}}, caps : SeqsUpTo(QueryCapTokens, MaxCaps)]

InitQuery ==
    /\ p_in \in [op : {"query"}, ktext : QueryTexts]
    /\ p_out = NoStep
    /\ FetchIdle
    /\ MainOff
    /\ ClassifierIdle

\* run_scrape_one, line 859
GuessTarget ==
    /\ p_in.op = "query"
    /\ p_out = NoStep
    /\ p_out' = [op |-> "query", target |-> guess_target_capacity_from_query(p_in.ktext)]
    /\ UNCHANGED <<p_in, cvars, fvars, mvars>>

NextQuery == GuessTarget

SpecQuery == InitQuery /\ [][NextQuery]_vars

\* C20: guess_target_capacity_from_query never sets both targets; it sets the TB
\* target alone, from the first number followed by TB, when the keyword has one
\* (wherever a GB expression stands); otherwise the GB target alone, from the first
\* number of 2 to 5 digits followed by GB, when it has one; otherwise neither.
C20_TargetFromQuery ==
    p_out.op = "query" =>
        LET caps == p_in.ktext.caps
            tb == SelectSeq(caps, LAMBDA c : c.unit = "TB")
            gb == SelectSeq(caps, LAMBDA c : c.unit = "GB" /\ c.v >= 10 /\ c.v <= 99999)
            t == p_out.target
        IN  /\ ~(t.target_gb # None /\ t.target_tb # None)
            /\ IF tb # <<>> THEN t.target_tb = tb[1].v /\ t.target_gb = None
               ELSE IF gb # <<>> THEN t.target_gb = gb[1].v /\ t.target_tb = None
               ELSE t.target_gb = None /\ t.target_tb = None

(***************************************************************************)
(* Properties of the scrape loop, fetch_html and run_scrape_one (Spec)     *)
(***************************************************************************)
MainEnded == pc \in {"done", "aborted"}

\* C1: a unit whose fetch fails does not keep the later units from being started:
\* when main() has ended, run_scrape_one has been called for every unit.
C1_FailureDoesNotStopLaterUnits == MainEnded => Len(started) = Len(Units)

RetriedOutcomes == {408, 429, 503, 504, TransportException}

\* C2: fetch_html makes at most 4 attempts; there is no wait before the first and
\* the waits before attempts 2, 3, 4 are 2s, 5s, 9s, none after the last; attempt
\* i+1 is made if and only if i < 4 and attempt i ended in 408/429/503/504 or a
\* transport exception; the first success returns that response's text at once.
C2_RetryPolicy ==
    LET n == Len(attempts)
    IN  /\ n <= 4
        /\ slept = SubSeq(<<2, 5, 9>>, 1, IF n = 0 THEN 0 ELSE n - 1)
        /\ \A i \in 1..(n - 1) : attempts[i] \in RetriedOutcomes
        /\ n >= 1 =>
              /\ pc = "fetching" <=> (n < 4 /\ attempts[n] \in RetriedOutcomes)
              /\ attempts[n] = 200 <=> pc = "fetched"
              /\ pc = "fetched" =>
                    fetch_result = [kind |-> "text", attempt |-> n, status |-> 200]

\* the fourth attempt succeeds after a retried status, an exception and another status
C2_Witness ==
    /\ pc = "fetched"
    /\ attempts = <<503, TransportException, 429, 200>>
    /\ slept = <<2, 5, 9>>

\* C3: an error status other than 408/429/503/504 on attempt i is raised on that
\* attempt: it is the last attempt, no wait follows, whatever the earlier attempts
\* returned.
C3_OtherStatusRaisedAtOnce ==
    \A i \in 1..Len(attempts) :
        attempts[i] \in {404, 500} =>
            /\ i = Len(attempts)
            /\ Len(slept) = i - 1
            /\ pc = "aborted"
            /\ fetch_result = [kind |-> "raise", attempt |-> i, status |-> attempts[i]]

\* a 404 on the third attempt, after an exception and a 503
C3_Witness ==
    /\ pc = "aborted"
    /\ attempts = <<TransportException, 503, 404>>
    /\ fetch_result = [kind |-> "raise", attempt |-> 3, status |-> 404]

\* C4: when every attempt fails with a retried failure, fetch_html raises, and
\* what it raises is the failure of the final attempt.
C4_LastFailureRaised ==
    Len(attempts) = 4 /\ attempts[4] \in RetriedOutcomes =>
        /\ pc = "aborted"
        /\ fetch_result = [kind |-> "raise", attempt |-> 4, status |-> attempts[4]]

\* four failures of different kinds, the last one a 408
C4_Witness ==
    /\ attempts = <<503, TransportException, 429, 408>>
    /\ fetch_result = [kind |-> "raise", attempt |-> 4, status |-> 408]

GracefulStops == {"blocked detected", "parsed 0 blocks"}

\* the fragments of a page that stand for an item and have a title
TitledBlocks(html) ==
    SelectSeq(html.frags, LAMBDA b : b.asin # SentinelAsin /\ b.title # EmptyText)

C5_NextUnitWitness ==
    /\ prev_stop = "parsed 0 blocks"
    /\ pc = "fetching"
    /\ started = <<1, 2>>

\* C7: in a non-raw run the row of a fragment with the no-eligible-offer marker
\* has category other (reason: no recommended offer) in a rotating unit and
\* category bad_offer in a solid-state unit, whatever its title and whether or not
\* brand-only mode is on, and it is not in the table the unit writes.
C7_NoOfferRows ==
    pc = "unit_done" /\ ~args.raw /\ unit_out.debug_file = "" =>
        LET blocks == TitledBlocks(unit_out.html)
            rows == unit_out.rows
        IN  /\ Len(rows) = Len(blocks)
            /\ \A i \in 1..Len(blocks) :
                  blocks[i].bad_offer =>
                      /\ Units[idx].kind = "HDD" =>
                            /\ rows[i].category = "other"
                            /\ rows[i].reason = "no recommended offer"
                      /\ Units[idx].kind = "SSD" =>
                            /\ rows[i].category = "bad_offer"
                            /\ rows[i].reason = "featured offer missing"
                      /\ \A j \in 1..Len(unit_out.csv) : unit_out.csv[j] # rows[i]

\* an accessory title with the marker in a rotating unit, brand-only mode on
C7_WitnessHDD ==
    /\ pc = "unit_done" /\ ~args.raw /\ args.brand_only
    /\ Units[idx].kind = "HDD"
    /\ \E i \in 1..Len(unit_out.rows) :
          /\ TitledBlocks(unit_out.html)[i].bad_offer
          /\ unit_out.rows[i].title = AccessoryTitle
          /\ unit_out.rows[i].category = "other"

DriveCategories ==
    {"drive_external", "drive_internal_nvme", "drive_internal_sata", "drive_internal"}

AsinsOf(rows) == {rows[i].asin : i \in 1..Len(rows)}

\* C13: in a non-raw run every row of the table has a drive_ category and is the
\* deduplication representative of its identifier, so an identifier whose
\* representative is no drive is not in the table; in a raw run the table is the
\* list of representatives, all with category raw.
C13_CategoryFilterOnRepresentatives ==
    pc = "unit_done" =>
        LET reps == unit_out.all_raw_rows
            csv == unit_out.csv
        IN  IF args.raw
            THEN /\ csv = reps
                 /\ \A i \in 1..Len(csv) : csv[i].category = "raw"
            ELSE /\ \A i \in 1..Len(csv) :
                       /\ csv[i].category \in DriveCategories
                       /\ \E j \in 1..Len(reps) : reps[j] = csv[i]
                 /\ \A j \in 1..Len(reps) :
                       reps[j].category \notin DriveCategories
                           => reps[j].asin \notin AsinsOf(csv)

\* an identifier seen as an accessory and then as a drive at the same price: the
\* accessory row represents it, and the identifier is not in the table
C13_Witness ==
    /\ pc = "unit_done" /\ ~args.raw
    /\ Len(unit_out.rows) = 2
    /\ unit_out.rows[1].asin = unit_out.rows[2].asin
    /\ unit_out.rows[1].category = "accessory"
    /\ unit_out.rows[2].category \in DriveCategories
    /\ unit_out.all_raw_rows = <<unit_out.rows[1]>>
    /\ unit_out.csv = <<>>

(***************************************************************************)
(* Properties of the classifiers (SpecClassify)                            *)
(***************************************************************************)
Ran == c_out.kind # "none"

c_target == guess_target_capacity_from_query(extract_k_from_url(c_out.kind, c_cap))

TargetKnown == c_target.target_tb # None \/ c_target.target_gb # None

AccessoryKeyword(kind, t) ==
    IF kind = "SSD" THEN SSD_ACCESSORY_RE(t) ELSE HDD_ACCESSORY_RE(t)

WrongDeviceKeyword(kind, t) ==
    IF kind = "SSD" THEN SSD_PC_RE(t) ELSE HDD_NAS_RE(t) /\ ~HDD_FOR_NAS_RE(t)

WrongDeviceCategory(kind) == IF kind = "SSD" THEN "pc_device" ELSE "nas_device"

RulesOneAndTwoFirst ==
    /\ c_title # EmptyText /\ AccessoryKeyword(c_out.kind, c_title)
          => c_out.res.category = "accessory"
    /\ ~AccessoryKeyword(c_out.kind, c_title) /\ WrongDeviceKeyword(c_out.kind, c_title)
          => c_out.res.category = WrongDeviceCategory(c_out.kind)

\* C6 as stated: in both classifiers an accessory keyword gives accessory whatever
\* the target, the capacity-match flag and the no-eligible-offer signal are, and a
\* wrong-device keyword without accessory keyword and without for-NAS qualifier
\* gives pc_device / nas_device.
C6_AsStated == Ran => RulesOneAndTwoFirst

\* C6 amended: the accessory rule and the wrong-device rule come first and win in
\* the solid-state classifier always, and in the rotating classifier whenever the
\* no-eligible-offer signal is absent; with the signal the rotating classifier
\* returns other for every title, before those two rules.
C6_RuleOrder ==
    Ran => IF c_out.kind = "HDD" /\ c_no_offer
           THEN c_out.res = Res("other", "no recommended offer")
           ELSE RulesOneAndTwoFirst

\* an accessory title that also names a wrong device and a capacity, classified
\* accessory with capacity matching enabled and a target known
C6_Witness ==
    /\ Ran /\ c_enabled /\ TargetKnown
    /\ AccessoryKeyword(c_out.kind, c_title)
    /\ WrongDeviceKeyword(c_out.kind, c_title)
    /\ c_title.caps # <<>>
    /\ c_out.res.category = "accessory"

\* the rule chain with the capacity check (step 6) taken out
ChainWithoutStep6(kind, t, no_offer) ==
    IF kind = "SSD"
    THEN IF ssd_rules_before_capacity(t) # Pass THEN ssd_rules_before_capacity(t)
         ELSE ssd_subtype(t)
    ELSE IF hdd_rules_before_capacity(t, no_offer) # Pass
         THEN hdd_rules_before_capacity(t, no_offer)
         ELSE hdd_subtype(t)

\* the title states exactly one capacity, and it is within the tolerance the
\* specification gives for the target (exact arithmetic)
OneCapacityWithinTolerance(t, target) ==
    /\ Cardinality(Range(t.caps)) = 1
    /\ LET cap == t.caps[1]
       IN  IF target.target_tb # None
           THEN IF cap.unit = "TB"
                THEN Abs(cap.v - target.target_tb) <= 200
                ELSE \/ Abs(1000 * cap.v - 1024 * target.target_tb) <= 80000
                     \/ Abs(cap.v - target.target_tb) <= 80
           ELSE /\ target.target_gb # None
                /\ cap.unit = "GB"
                /\ 10 * Abs(cap.v - target.target_gb) <= Max2(200, target.target_gb)

\* C8: with capacity matching disabled the result is that of the chain without
\* step 6, and a title stating exactly one capacity within tolerance of the target
\* gets the same (category, reason) with capacity matching enabled as with it
\* disabled.
C8_Step6Transparent ==
    Ran =>
      /\ ~c_enabled => c_out.res = ChainWithoutStep6(c_out.kind, c_title, c_no_offer)
      /\ c_enabled /\ OneCapacityWithinTolerance(c_title, c_target)
            => c_out.res = classify_call(c_out.kind, c_cap, c_title, FALSE, c_no_offer)

ReachesStep6 ==
    IF c_out.kind = "SSD" THEN ssd_rules_before_capacity(c_title) = Pass
    ELSE hdd_rules_before_capacity(c_title, c_no_offer) = Pass

\* the capacities a title states, in GB (decimal), so that 1TB and 1000GB are one
StatedCapacities(t) == {c.v : c \in Range(t.caps)}

\* C9: with capacity matching enabled and a target known, a title that reaches
\* step 6 and states more than one distinct capacity value is classified other,
\* in whatever units the values are written.
C9_MultiCapacityRejected ==
    /\ Ran /\ c_enabled /\ TargetKnown /\ ReachesStep6
    /\ Cardinality(StatedCapacities(c_title)) > 1
    => c_out.res.category = "other"

\* C10: the capacity check runs exactly when capacity matching is enabled and the
\* query resolved to a target, in TB or in GB, for both kinds: when it runs a
\* title with no capacity is classified other, and when it does not run every
\* title gets the result it gets with matching disabled.
C10_CheckRunsIffTargetKnown ==
    Ran =>
      /\ c_enabled /\ TargetKnown /\ ReachesStep6 /\ c_title.caps = <<>>
            => c_out.res.category = "other"
      /\ ~(c_enabled /\ TargetKnown)
            => c_out.res = classify_call(c_out.kind, c_cap, c_title, FALSE, c_no_offer)

(***************************************************************************)
(* The tolerances of the capacity check (SpecCapacity)                     *)
(***************************************************************************)
\* capacities a title can state around the targets 1TB, 2TB, 512GB and 100GB: on
\* a bound of a tolerance, one step beyond it, and far from it
CapacityTokens ==
    {[unit |-> "TB", v |-> 500], [unit |-> "TB", v |-> 800], [unit |-> "TB", v |-> 1200],
     [unit |-> "TB", v |-> 1800], [unit |-> "TB", v |-> 2200],
     [unit |-> "GB", v |-> 120], [unit |-> "GB", v |-> 121], [unit |-> "GB", v |-> 563],
     [unit |-> "GB", v |-> 564], [unit |-> "GB", v |-> 919], [unit |-> "GB", v |-> 920],
     [unit |-> "GB", v |-> 1104], [unit |-> "GB", v |-> 1105], [unit |-> "GB", v |-> 1200]}

\* a title with the keyword of its kind and nothing else but capacities
CapacityTitles == [kw : {{"SSD"}, {"HDD"}}, caps : SeqsUpTo(CapacityTokens, MaxCaps)]

\* --caps: the capacity argument of the unit
CapacityQueryCaps ==
    {<<[unit |-> "TB", v |-> 1000]>>, <<[unit |-> "TB", v |-> 2000]>>,
     <<[unit |-> "GB", v |-> 512]>>, <<[unit |-> "GB", v |-> 100]>>}

InitCapacity ==
    /\ c_title \in CapacityTitles
    /\ c_cap \in CapacityQueryCaps
    /\ c_enabled \in BOOLEAN
    /\ c_no_offer = FALSE
    /\ c_out = NotRun
    /\ FetchIdle
    /\ MainOff
    /\ StepIdle

NextCapacity == ClassifySSD \/ ClassifyHDD

SpecCapacity == InitCapacity /\ [][NextCapacity]_vars

\* the reasons with which the capacity check returns other
CapacityRejections == {"multi-capacity listing", "no capacity", "capacity mismatch"}

\* the capacity check ran on the title and let it through
CapacityAccepted == c_out.res.reason \notin CapacityRejections

\* the title states one capacity, in this unit
StatesOneCapacityIn(t, unit) ==
    /\ t.caps # <<>>
    /\ Cardinality(Range(t.caps)) = 1
    /\ t.caps[1].unit = unit

\* C21: with a TB target and a title that states a capacity only in GB, the
\* capacity check of both classifiers accepts the title iff the GB value is
\* within 80 GB of target x 1024 or within 80 GB of target x 1000.
C21_GbTitleUnderTbTarget ==
    /\ Ran /\ c_enabled /\ ReachesStep6
    /\ c_target.target_tb # None
    /\ StatesOneCapacityIn(c_title, "GB")
    => (CapacityAccepted <=>
            \/ Abs(1000 * c_title.caps[1].v - 1024 * c_target.target_tb) <= 80000
            \/ Abs(c_title.caps[1].v - c_target.target_tb) <= 80)

\* C22: with a TB target and a title stating one capacity in TB, the check accepts
\* iff the two differ by at most 0.2 TB; with a GB target and a title stating one
\* capacity in GB, ssd_classify accepts iff they differ by at most
\* max(20, 10% of the target); a value exactly on the bound is accepted.
C22_ToleranceBounds ==
    Ran /\ c_enabled /\ ReachesStep6 =>
        /\ c_target.target_tb # None /\ StatesOneCapacityIn(c_title, "TB")
              => (CapacityAccepted <=> Abs(c_title.caps[1].v - c_target.target_tb) <= 200)
        /\ c_out.kind = "SSD" /\ c_target.target_gb # None /\ StatesOneCapacityIn(c_title, "GB")
              => (CapacityAccepted <=>
                     10 * Abs(c_title.caps[1].v - c_target.target_gb)
                         <= Max2(200, c_target.target_gb))

(***************************************************************************)
(* The subtype assignment after rules 1 to 6 (SpecClassify)                *)
(***************************************************************************)
\* rule 5 as the specification words it: a defining keyword of the kind, or a
\* recognized interface or form hint
PositiveEvidence(kind, t) ==
    IF kind = "SSD"
    THEN SSD_RE(t) \/ ssd_extract_iface(t) # "" \/ ssd_extract_form(t) # ""
    ELSE HDD_HINT_RE(t) \/ hdd_extract_iface(t) # ""

\* no rule before the subtype assignment returned for the title: no accessory,
\* wrong-device, no-offer or opposite-type rule, and not the capacity check
PassedRulesOneToSix ==
    /\ c_title # EmptyText
    /\ ~c_no_offer
    /\ ReachesStep6
    /\ PositiveEvidence(c_out.kind, c_title)
    /\ CapacityAccepted

NoSubtypeHint(kind, t) ==
    IF kind = "SSD" THEN ssd_extract_iface(t) = "" /\ ssd_extract_form(t) = ""
    ELSE hdd_extract_iface(t) = ""

\* C23: in both classifiers every title that passes rules 1 to 6 gets a category
\* that starts with drive_, never other; when no subtype hint is conclusive it is
\* the generic internal subtype, drive_internal_sata (solid-state) or
\* drive_internal (rotating).
C23_PassedTitlesAreDrives ==
    Ran /\ PassedRulesOneToSix =>
        /\ c_out.res.category \in DriveCategories
        /\ NoSubtypeHint(c_out.kind, c_title) =>
              c_out.res.category =
                  (IF c_out.kind = "SSD" THEN "drive_internal_sata" ELSE "drive_internal")

(***************************************************************************)
(* The brand-only post-filter (SpecRows)                                   *)
(***************************************************************************)
\* the title matches a brand pattern of its kind: brand_guess is not empty
KnownBrand(kind, t) ==
    IF kind = "SSD" THEN ssd_guess_brand(t) # "" ELSE hdd_guess_brand(t) # ""

\* C24: in brand-only mode, for both kinds, every item whose title matches no
\* known brand or maker pattern ends with category other, whatever category it
\* had before the post-filter; an item whose title matches one keeps its category.
C24_BrandOnlyDowngrade ==
    p_out.op = "rows" /\ p_in.brand_only /\ ~p_in.raw =>
        \A k \in 1..Len(p_out.rows) :
            ~p_out.rows[k].raised =>
                LET rows == p_out.rows[k].value
                    plain == page_rows(p_in.kind, p_in.blocks,
                                 guess_target_capacity_from_query(
                                     extract_k_from_url(p_in.kind,
                                                        <<[unit |-> "TB", v |-> 1000]>>)),
                                 FALSE, FALSE, TRUE)
                IN  \A i \in 1..Len(rows) :
                        IF KnownBrand(p_in.kind, rows[i].title)
                        THEN rows[i].category = plain[i].category
                        ELSE rows[i].category = "other"

(***************************************************************************)
(* stats_summary taken alone (SpecStats)                                   *)
(***************************************************************************)
\* prices whose means have ties above an even and above an odd integer
StatPrices == {1, 2, 3, 6}

InitStats ==
    /\ p_in \in [op : {"stats"}, prices : SeqsUpTo(StatPrices, MaxPrices)]
    /\ p_out = NoStep
    /\ FetchIdle
    /\ MainOff
    /\ ClassifierIdle

\* run_scrape_one, line 1038, and _print_group, line 1053
StatsSummary ==
    /\ p_in.op = "stats"
    /\ p_out = NoStep
    /\ p_out' = [op |-> "stats", s |-> stats_summary(p_in.prices)]
    /\ UNCHANGED <<p_in, cvars, fvars, mvars>>

NextStats == StatsSummary

SpecStats == InitStats /\ [][NextStats]_vars

StatsOfPrices == p_out.op = "stats" /\ p_in.prices # <<>>

\* C25 as stated: the average stats_summary reports for a non-empty list of integer
\* prices is the arithmetic mean rounded half-up (a mean ending in .5 goes to the
\* next higher integer), and min <= avg <= max.
C25_AvgHalfUp ==
    StatsOfPrices =>
        LET total == SeqSum(p_in.prices)
            n == Len(p_in.prices)
        IN  /\ p_out.s[2] = (2 * total + n) \div (2 * n)
            /\ p_out.s[1] <= p_out.s[2]
            /\ p_out.s[2] <= p_out.s[3]

\* C25 amended: the average is the arithmetic mean rounded to the nearest integer,
\* a mean ending in .5 going to the even neighbour; min and max are the least and
\* the greatest price, and min <= avg <= max.
C25_AvgNearestTiesToEven ==
    StatsOfPrices =>
        LET total == SeqSum(p_in.prices)
            n == Len(p_in.prices)
            avg == p_out.s[2]
        IN  /\ 2 * Abs(n * avg - total) <= n
            /\ 2 * Abs(n * avg - total) = n => avg % 2 = 0
            /\ p_out.s[1] = SetMin(Range(p_in.prices))
            /\ p_out.s[3] = SetMax(Range(p_in.prices))
            /\ p_out.s[1] <= avg
            /\ avg <= p_out.s[3]

\* the mean of 2 and 3 is 2.5: the average reported is 2
C25_Witness ==
    /\ p_out.op = "stats"
    /\ p_in.prices = <<2, 3>>
    /\ p_out.s = <<2, 2, 3>>

(***************************************************************************)
(* The order of the units, their one page and the pacing sleeps (Spec)     *)
(***************************************************************************)
\* run_scrape_one is inside its call for the current unit
InUnit == pc \in {"fetching", "fetched", "parsing", "unit_done", "aborted"}

\* the k-th unit of a run: the solid-state capacities, then the rotating ones
ListOrder(k) ==
    IF k <= Len(SSD_CAPACITIES) THEN [kind |-> "SSD", cap |-> SSD_CAPACITIES[k]]
    ELSE [kind |-> "HDD", cap |-> HDD_CAPACITIES[k - Len(SSD_CAPACITIES)]]

UnitsInOrder ==
    /\ \A k \in 1..Len(started) : started[k] = k /\ Units[started[k]] = ListOrder(k)
    /\ InUnit => Len(started) = idx /\ inter_cap_sleeps = idx - 1
    /\ ~InUnit => Len(started) = idx - 1 /\ inter_cap_sleeps = idx - 1
    /\ pc \in {"fetching", "fetched", "parsing"} => unit_out = NoUnitOut

UnitSteps ==
    \* a unit starts from the loop of main(), after the report and the sleep of
    \* the unit before it, and starts with its fetch
    /\ started' # started =>
          /\ pc = "loop" /\ pc' = "fetching"
          /\ started' = Append(started, idx)
          /\ unit_out = NoUnitOut
          /\ idx > 1 => prev_stop # ""
    \* fetch_html is entered at the start of a unit and at no other time
    /\ pc' = "fetching" /\ pc # "fetching" => started' # started
    \* the report is made once, from the page that was fetched
    /\ unit_out' # unit_out /\ unit_out' # NoUnitOut => pc = "parsing" /\ pc' = "unit_done"
    \* no sleep of main() inside a unit, and one after every unit that returned
    /\ inter_cap_sleeps' # inter_cap_sleeps =>
          pc = "unit_done" /\ inter_cap_sleeps' = inter_cap_sleeps + 1
    /\ pc = "unit_done" /\ pc' # pc =>
          /\ inter_cap_sleeps' = inter_cap_sleeps + 1
          /\ pc' = "loop"
          /\ idx' = idx + 1
    \* the waits of fetch_html are the retry waits of its attempts
    /\ slept' # slept => (pc = "fetching" /\ Len(attempts') = Len(attempts) + 1) \/ slept' = <<>>

\* C26: the units are processed one after another in list order, all solid-state
\* capacities and then all rotating ones; the fetch, the rows, the filters and the
\* report of a unit are done before the fetch of the next unit starts; a unit calls
\* fetch_html exactly once and sleeps between no two pages; the inter-unit sleep
\* is done after every unit that returned, before the first fetch of the next.
C26_UnitsOneAfterAnother == [](UnitsInOrder) /\ [][UnitSteps]_vars

\* the first rotating unit is being fetched, after the solid-state units and a
\* sleep behind each of them; its fetch is at the third attempt
C26_Witness ==
    /\ pc = "fetching"
    /\ started = <<1, 2, 3>>
    /\ Units[3].kind = "HDD"
    /\ inter_cap_sleeps = 2
    /\ slept = <<2, 5>>

(***************************************************************************)
(* The priced items of a unit through the outlier filter (SpecRetain)      *)
(***************************************************************************)
\* prices of the drives of a page: unknown, zero, and prices far from each other
RetainPrices == {None, 0, 1, 50, 126}

InitRetain ==
    /\ p_in \in [op : {"retain"}, kind : {"SSD", "HDD"}, raw : BOOLEAN,
                 prices : SeqsUpTo(RetainPrices, MaxPrices)]
    /\ p_out = NoStep
    /\ FetchIdle
    /\ MainOff
    /\ ClassifierIdle

\* run_scrape_one of a 1TB unit with the default ratios, on a page of 1TB drives
RetainUnit ==
    /\ p_in.op = "retain"
    /\ p_out = NoStep
    /\ p_out' = [op |-> "retain",
                 run |-> run_scrape_one(p_in.kind, <<[unit |-> "TB", v |-> 1000]>>,
                                        p_in.raw, FALSE, FALSE,
                                        GaugePage(<<[unit |-> "TB", v |-> 1000]>>,
                                                  p_in.prices))]
    /\ UNCHANGED <<p_in, cvars, fvars, mvars>>

NextRetain == RetainUnit

SpecRetain == InitRetain /\ [][NextRetain]_vars

\* the rows that are valid drives of the unit, before the outlier filter
RetainedBeforeFilter ==
    SelectSeq(p_out.run.all_raw_rows, LAMBDA r : p_in.raw \/ r.category \in DriveCategories)

\* C27: with the default ratios, whenever the retained set has an item with a
\* known price, an item with a known price is left after the outlier filter, and
\* the unit prints an ALL line (with a count of at least 1).
C27_FilterKeepsAPricedItem ==
    p_out.op = "retain" =>
        LET before == RetainedBeforeFilter
            after == p_out.run.csv
            all == LinesWith(p_out.run.log, "ALL")
        IN  (\E i \in 1..Len(before) : before[i].price_yen # None) =>
                /\ \E j \in 1..Len(after) : after[j].price_yen # None
                /\ \A j \in 1..Len(after) : \E i \in 1..Len(before) : before[i] = after[j]
                /\ Len(all) = 1
                /\ ReadInts(all[1])[4] >= 1

\* four priced drives, median 50: the filter removes 1 and 126, the ALL line is
\* that of the two left
C27_Witness ==
    /\ p_out.op = "retain"
    /\ ~p_in.raw
    /\ p_in.prices = <<1, 50, 50, 126>>
    /\ Len(RetainedBeforeFilter) = 4
    /\ [j \in 1..Len(p_out.run.csv) |-> p_out.run.csv[j].price_yen] = <<50, 50>>
    /\ ReadInts(LinesWith(p_out.run.log, "ALL")[1]) = <<50, 50, 50, 2>>

\* the prices 0 and 1, median 0: 1 is removed and the drive priced 0 is left
C27_WitnessZero ==
    /\ p_out.op = "retain"
    /\ ~p_in.raw
    /\ p_in.prices = <<0, 1>>
    /\ [j \in 1..Len(p_out.run.csv) |-> p_out.run.csv[j].price_yen] = <<0>>

====
